---- MODULE Spec2Model ----
(***************************************************************************)
(* A model of watcher (src/watcher/core.py, src/watcher/ignore.py): the    *)
(* GitCommitHandler event handler, its per-directory debounce timers, the  *)
(* commit sequences the timers run, the periodic fetch, the startup        *)
(* commits and stop().                                                     *)
(*                                                                         *)
(* Strings are sequences of one-character strings, paths are sequences of  *)
(* such strings (one per path segment).  A threading.Timer is a thread     *)
(* that waits for its interval, then reads its `finished` flag once and,   *)
(* if the flag is clear, calls its function; cancel() sets the flag, so a  *)
(* cancel() that comes after that read changes nothing.                    *)
(***************************************************************************)
EXTENDS Integers, Sequences, FiniteSets, TLC

\* ------------------------------------------------------------------------
\* Bounds of the model.

\* The number of debounce Timer threads that exist at the same time.
MaxTimers == 3

\* commit_delay, in clock ticks (config.py:65 sets 60 seconds by default).
CommitDelay == 1

\* ------------------------------------------------------------------------
\* Strings and paths.

RECURSIVE Join(_)
\* '/'.join(parts)
Join(parts) ==
    IF parts = <<>> THEN <<>>
    ELSE IF Len(parts) = 1 THEN parts[1]
    ELSE parts[1] \o <<"/">> \o Join(Tail(parts))

RECURSIVE Split(_)
\* s.split('/')
Split(s) ==
    IF \A i \in 1..Len(s) : s[i] # "/" THEN <<s>>
    ELSE LET k == CHOOSE i \in 1..Len(s) :
                      s[i] = "/" /\ \A j \in 1..(i - 1) : s[j] # "/"
         IN  <<SubSeq(s, 1, k - 1)>> \o Split(SubSeq(s, k + 1, Len(s)))

RECURSIVE Strip(_)
\* s.strip(), for the blank character
Strip(s) ==
    IF s = <<>> THEN s
    ELSE IF Head(s) = " " THEN Strip(Tail(s))
    ELSE IF s[Len(s)] = " " THEN Strip(SubSeq(s, 1, Len(s) - 1))
    ELSE s

\* Path.is_relative_to(dir): dir's segments are a prefix of path's.
is_relative_to(path, dir) ==
    /\ Len(dir) <= Len(path)
    /\ SubSeq(path, 1, Len(dir)) = dir

\* Path.relative_to(dir), for a path under dir.
relative_to(path, dir) == SubSeq(path, Len(dir) + 1, Len(path))

\* Path.parent
parent(path) == SubSeq(path, 1, Len(path) - 1)

RECURSIVE fnmatch(_, _)
\* fnmatch.fnmatch(name, pat) for patterns over literals, '*' and '?'
\* ('*' matches any run of characters, '/' included).
fnmatch(name, pat) ==
    IF pat = <<>> THEN name = <<>>
    ELSE IF Head(pat) = "*"
         THEN \/ fnmatch(name, Tail(pat))
              \/ (name # <<>> /\ fnmatch(Tail(name), pat))
    ELSE IF name = <<>> THEN FALSE
    ELSE /\ (Head(pat) = "?" \/ Head(pat) = Head(name))
         /\ fnmatch(Tail(name), Tail(pat))

\* ------------------------------------------------------------------------
\* The configuration and the files on disk.

watch_dir == << <<"w">> >>
repo_dir == << <<"w">> >>

\* What `git submodule foreach --quiet 'echo $sm_path'` prints for the
\* repository, line by line, in git's order.
sm_path == << <<"s">>, <<"v">> >>

\* get_submodules without the test of the return code and without the try:
\* the lines are read whatever the command's outcome was.
get_submodules_unchecked(out, stdout) ==
    LET lines == SelectSeq([i \in 1..Len(stdout) |-> Strip(stdout[i])],
                           LAMBDA line : line # <<>>)
    IN  [i \in 1..Len(lines) |-> repo_dir \o Split(lines[i])]

\* _get_submodules, lines 84-97: the git command ended with `out` and printed
\* the lines `stdout`.  A non-zero return code and an exception of the runner
\* both give the empty list.
get_submodules(out, stdout) ==
    IF out = "ok"
    THEN LET lines == SelectSeq([i \in 1..Len(stdout) |-> Strip(stdout[i])],
                                LAMBDA line : line # <<>>)
         IN  [i \in 1..Len(lines) |-> repo_dir \o Split(lines[i])]
    ELSE <<>>

\* self.submodules when the command succeeded.
Discovered == get_submodules("ok", sm_path)

\* The keys of pending_commits and commit_timers: str(target_dir).
Dirs == {repo_dir} \cup {Discovered[i] : i \in 1..Len(Discovered)}

\* ~/.config/watcher/ignore, ignore_patterns, and the ignore_files' lines.
global_patterns == << >>
config_patterns == << <<"*", ".", "l">>, <<"!", "a">>, <<"t", "/">> >>
additional_patterns == << >>
all_patterns == global_patterns \o config_patterns \o additional_patterns

\* The .gitignore files on disk when the process starts: directory -> lines.
GitignoreFiles ==
    (watch_dir :> << <<"#", "g">>, <<"g">> >>)
    @@ (<< <<"w">>, <<"s", "r", "c">> >> :> << <<"x", ".", "t", "x", "t">> >>)

\* The paths the event source reports.
FileA == << <<"w">>, <<"a">> >>
FileB == << <<"w">>, <<"b">> >>
FileS == << <<"w">>, <<"s">>, <<"c">> >>
FileL == << <<"w">>, <<"a", ".", "l">> >>
FileG == << <<"w">>, <<"g">> >>
FileT == << <<"w">>, <<"t">>, <<"a">> >>
FileO == << <<"o">>, <<"a">> >>
Paths == {FileA, FileB, FileS, FileL, FileG, FileT, FileO}

\* ------------------------------------------------------------------------
\* The state.

VARIABLES
    config,              \* self.config: the booleans the engine reads
    submodules,          \* self.submodules: the submodule directories
    launch,              \* run_watcher: what its validation sees and returns
    pending_commits,     \* self.pending_commits: dir_key -> set of paths
    commit_timers,       \* self.commit_timers: dir_key -> Timer
    timer_lock,          \* self.timer_lock: who holds it
    gitignore_patterns,  \* IgnoreManager.gitignore_patterns: dir -> patterns
    gitignore_files,     \* the .gitignore files on disk: dir -> lines
    timers,              \* the debounce Timer threads
    handler,             \* the observer thread, which delivers the events
    main,                \* the main thread: __init__, the sleep loop, stop()
    fetch_timer,         \* the Timer self.fetch_timer refers to
    poller,              \* the thread that runs _periodic_fetch
    job,                 \* the commit sequence the main thread runs in __init__
    probe,               \* the test-ignore command: its IgnoreManager and result
    since                \* dir_key -> ticks since its last accepted event

vars == <<gitignore_files, config, submodules, launch, pending_commits,
          commit_timers, timer_lock, gitignore_patterns, timers, handler, main, fetch_timer, poller,
          job, probe, since>>

\* ------------------------------------------------------------------------
\* IgnoreManager.

\* _matches_pattern with a negation line matched as the pattern that follows
\* the '!'.
matches_pattern_negation_as_pattern(file_path, pattern0) ==
    LET stripped == Strip(pattern0)
        pattern == IF stripped # <<>> /\ Head(stripped) = "!"
                   THEN Tail(stripped) ELSE stripped
    IN
    IF pattern = <<>> \/ Head(pattern) = "#" THEN FALSE
    ELSE IF pattern[Len(pattern)] = "/"
         THEN LET pat == SubSeq(pattern, 1, Len(pattern) - 1)
                  path_parts == Split(file_path)
              IN  \E i \in 1..Len(path_parts) :
                      fnmatch(Join(SubSeq(path_parts, 1, i)), pat)
    ELSE LET parts == Split(file_path)
         IN  \/ fnmatch(file_path, pattern)
             \/ fnmatch(parts[Len(parts)], pattern)

\* _matches_pattern(file_path, pattern)
matches_pattern(file_path, pattern0) ==
    LET pattern == Strip(pattern0) IN
    IF pattern = <<>> \/ Head(pattern) = "#" THEN FALSE
    ELSE IF Head(pattern) = "!" THEN FALSE
    ELSE IF pattern[Len(pattern)] = "/"
         THEN LET pat == SubSeq(pattern, 1, Len(pattern) - 1)
                  path_parts == Split(file_path)
              IN  \E i \in 1..Len(path_parts) :
                      fnmatch(Join(SubSeq(path_parts, 1, i)), pat)
    ELSE LET parts == Split(file_path)
         IN  \/ fnmatch(file_path, pattern)
             \/ fnmatch(parts[Len(parts)], pattern)

\* _load_ignore_file: the stripped lines that are neither empty nor comments.
load_ignore_file(lines) ==
    SelectSeq([i \in 1..Len(lines) |-> Strip(lines[i])],
              LAMBDA l : l # <<>> /\ Head(l) # "#")

\* The cache after lines 139-142 without the test of line 141: the file is
\* read in every call.
load_gitignore_every_time(current_dir, cache, files) ==
    IF current_dir \in DOMAIN files
    THEN (current_dir :> load_ignore_file(files[current_dir]))
         @@ cache
    ELSE cache

\* The cache after lines 139-142: when current_dir has a .gitignore on disk
\* and no entry in the cache, the file's patterns become its entry.
load_gitignore(current_dir, cache, files) ==
    IF current_dir \in DOMAIN files /\ current_dir \notin DOMAIN cache
    THEN (current_dir :> load_ignore_file(files[current_dir]))
         @@ cache
    ELSE cache

RECURSIVE matches_gitignore_from(_, _, _, _)
\* _matches_gitignore's loop from current_dir upwards: the result and the
\* cache (gitignore_patterns) it leaves, `files` being the .gitignore files
\* on disk.  A directory's .gitignore is looked
\* for on disk in every call (line 139) and read only when the directory has
\* no entry in the cache (lines 141-142).
matches_gitignore_from(file_path, current_dir, cache, files) ==
    LET has == current_dir \in DOMAIN files
        cache1 == load_gitignore(current_dir, cache, files)
        rel == Join(relative_to(file_path, current_dir))
        hit == /\ has
               /\ \E i \in 1..Len(cache1[current_dir]) :
                      matches_pattern(rel, cache1[current_dir][i])
    IN  IF hit THEN [ignored |-> TRUE, cache |-> cache1]
        ELSE IF current_dir = watch_dir THEN [ignored |-> FALSE, cache |-> cache1]
        ELSE matches_gitignore_from(file_path, parent(current_dir), cache1,
                                    files)

\* _matches_gitignore that starts at the watch root: only the root's
\* .gitignore is consulted.
matches_gitignore_root_only(file_path, cache, files) ==
    matches_gitignore_from(file_path, watch_dir, cache, files)

\* _matches_gitignore(file_path)
matches_gitignore(file_path, cache, files) ==
    matches_gitignore_from(file_path, parent(file_path), cache, files)

\* should_ignore with `return False` in the handler of line 44: a path that
\* is not under the watch root is let through.
should_ignore_outside_kept(patterns, file_path, respect_gitignore, cache, files) ==
    IF ~is_relative_to(file_path, watch_dir)
    THEN [ignored |-> FALSE, cache |-> cache]
    ELSE LET rel_path_str == Join(relative_to(file_path, watch_dir)) IN
         IF \E i \in 1..Len(patterns) :
                matches_pattern(rel_path_str, patterns[i])
         THEN [ignored |-> TRUE, cache |-> cache]
         ELSE IF respect_gitignore
              THEN matches_gitignore(file_path, cache, files)
              ELSE [ignored |-> FALSE, cache |-> cache]

\* should_ignore(file_path) of an IgnoreManager whose all_patterns is
\* `patterns`, `files` being the .gitignore files on disk: the result and the
\* cache it leaves.
should_ignore(patterns, file_path, respect_gitignore, cache, files) ==
    IF ~is_relative_to(file_path, watch_dir)
    THEN [ignored |-> TRUE, cache |-> cache]
    ELSE LET rel_path_str == Join(relative_to(file_path, watch_dir)) IN
         IF \E i \in 1..Len(patterns) :
                matches_pattern(rel_path_str, patterns[i])
         THEN [ignored |-> TRUE, cache |-> cache]
         ELSE IF respect_gitignore
              THEN matches_gitignore(file_path, cache, files)
              ELSE [ignored |-> FALSE, cache |-> cache]

\* ------------------------------------------------------------------------
\* RepoTopology.

\* _is_in_submodule(file_path)
is_in_submodule(file_path) ==
    \E i \in 1..Len(submodules) : is_relative_to(file_path, submodules[i])

\* _get_submodule_for_file(file_path): the first submodule, in list order,
\* that the path is under.
get_submodule_for_file(file_path) ==
    submodules[CHOOSE i \in 1..Len(submodules) :
                   /\ is_relative_to(file_path, submodules[i])
                   /\ \A j \in 1..(i - 1) : ~is_relative_to(file_path, submodules[j])]

\* target_dir_of without the test of line 150: every path goes to the root.
target_dir_of_root(file_path) == repo_dir

\* The target_dir of _handle_file_change (core.py lines 150-157).
target_dir_of(file_path) ==
    IF is_in_submodule(file_path)
    THEN get_submodule_for_file(file_path)
    ELSE repo_dir

\* ------------------------------------------------------------------------
\* The threads and their records.

TimerIds == 1..MaxTimers

\* An empty dict.
EmptyMap == [x \in {} |-> 0]

\* del d[k]
MapDel(d, k) == [x \in (DOMAIN d) \ {k} |-> d[x]]

\* The holders of timer_lock.
Free == [kind |-> "free", id |-> 0]
ObserverThread == [kind |-> "observer", id |-> 0]
MainThread == [kind |-> "main", id |-> 0]
TimerThread(t) == [kind |-> "timer", id |-> t]

\* A Timer slot that holds no thread.  pc is the thread's position:
\*   armed    started, waiting for its interval (left ticks remain)
\*   fired    read `finished` clear; in _execute_delayed_commit, before the lock
\*   locked   inside `with self.timer_lock`
\*   stage .. upd_push   about to run that git command
\*   exit     _execute_delayed_commit is over (returned, or raised: exc)
\* changed is changed_files; committed, staged and notified record what the
\* commit sequence did: the target's commit succeeded, how many times the
\* submodule's path was staged in the root, and how many commit notifications
\* were sent.  status_result and message are the locals of the message
\* synthesis (lines 297 and 208/240), and calls is the list of the git
\* commands the thread has run, each with its outcome.
NoTimer == [pc |-> "none", dir |-> repo_dir, left |-> 0, changed |-> {},
            committed |-> FALSE, staged |-> 0, exc |-> FALSE, notified |-> 0,
            status_result |-> <<>>, message |-> "", calls |-> <<>>]

\* The observer thread between two events.  While it handles an event, kind
\* and is_directory are the event's, path is event.src_path (from
\* _handle_file_change on: its file_path) and dest_path is event.dest_path.
IdleHandler == [pc |-> "idle", path |-> FileA, dir |-> repo_dir,
                kind |-> "", is_directory |-> FALSE, dest_path |-> <<>>]

\* The poller between two cycles.  idx is the target being polled (1 is the
\* root); old_head, current_branch, remote_head and commit_count are the
\* locals of the last call of _fetch_and_check_changes ("" while unassigned);
\* main_changes and submodule_changes are _periodic_fetch's, returned is the
\* list of what the cycle's calls of _fetch_and_check_changes returned, one
\* element per target, and sent is what _send_change_notification sent in
\* the cycle.
IdlePoller == [pc |-> "wait", idx |-> 0, old_head |-> "", current_branch |-> "",
               remote_head |-> "", commit_count |-> "",
               main_changes |-> <<>>, submodule_changes |-> <<>>,
               returned |-> <<>>, sent |-> <<>>]

\* No commit sequence of the main thread: __init__ is over.
NoJob == [pc |-> "none", idx |-> 0, dir |-> repo_dir, committed |-> FALSE,
          staged |-> 0, exc |-> FALSE, notified |-> 0,
          status_result |-> <<>>, message |-> "", calls |-> <<>>]

\* The configurations the engine is started with; load_config's defaults
\* (config.py lines 62-74) set every boolean.
Configs == [auto_push : BOOLEAN, enable_notifications : BOOLEAN,
            notify_on_commit : BOOLEAN, notify_on_remote_changes : BOOLEAN,
            respect_gitignore : {TRUE}]

default_config == [auto_push |-> TRUE, enable_notifications |-> TRUE,
                   notify_on_commit |-> TRUE, notify_on_remote_changes |-> TRUE,
                   respect_gitignore |-> TRUE]

\* No test-ignore command runs.  Otherwise the record holds the pattern lists
\* and the setting of the command's IgnoreManager, the path it is asked
\* about and test_pattern's result.
NoProbe == [pc |-> "none", global_patterns |-> <<>>, config_patterns |-> <<>>,
            additional_patterns |-> <<>>, respect_gitignore |-> TRUE,
            file_path |-> <<>>,
            result |-> [ignored |-> FALSE, matched_by |-> <<>>]]

\* run_watcher has not validated anything.  watch_exists, repo_exists and
\* is_git are what the file system answers for watch_directory,
\* repo_directory and repo_directory/.git; commit_delay and fetch_interval
\* are the configuration's; validation is validate_config's result (<<>>
\* before the call) and result is the outcome of the git command of
\* _get_submodules ("" before the call).
NoLaunch == [watch_exists |-> TRUE, repo_exists |-> TRUE, is_git |-> TRUE,
             commit_delay |-> CommitDelay, fetch_interval |-> CommitDelay,
             validation |-> <<>>, result |-> ""]

\* run_watcher validated the configuration and constructed the engine,
\* whose _get_submodules succeeded.
Launched == [NoLaunch EXCEPT !.validation = [valid |-> TRUE, errors |-> 0],
                             !.result = "ok"]

\* The fields as __init__ sets them (core.py lines 39-42): no pending set, no
\* debounce timer.
Fresh ==
    /\ gitignore_files = GitignoreFiles
    /\ pending_commits = EmptyMap
    /\ commit_timers = EmptyMap
    /\ timer_lock = Free
    /\ gitignore_patterns = EmptyMap
    /\ timers = [t \in TimerIds |-> NoTimer]
    /\ handler = IdleHandler
    /\ poller = IdlePoller
    /\ probe = NoProbe
    /\ since = [d \in Dirs |-> CommitDelay]

\* __init__ is over (lines 45-46): the startup commits are done and the fetch
\* timer is started; run_watcher is in its sleep loop.
Constructed ==
    /\ Fresh
    /\ launch = Launched
    /\ main = "running"
    /\ fetch_timer = "armed"
    /\ job = NoJob

\* The engine constructed from the default configuration.
Init ==
    /\ config = default_config
    /\ submodules = Discovered
    /\ Constructed

\* A slot for a new Timer object.
FreeSlot(t) ==
    /\ timers[t].pc = "none"
    /\ \A d \in DOMAIN commit_timers : commit_timers[d] # t

\* ------------------------------------------------------------------------
\* The observer thread: on_modified / on_created / on_deleted / on_moved and
\* _handle_file_change.

\* run_watcher, lines 559-569: the observer is started once the engine is
\* constructed, and runs until observer.stop().
Watching == {"running", "stop", "stop_locked", "stop_fetch", "stopped"}

\* on_event with an observer that delivers events from the start of
\* run_watcher on.
on_event_any_time(path, is_directory) ==
    /\ handler.pc = "idle"
    /\ main \notin {"observer_stopped", "joined"}
    /\ \E t \in TimerIds : FreeSlot(t)
    /\ IF is_directory
       THEN UNCHANGED handler
       ELSE handler' = [IdleHandler EXCEPT !.pc = "check", !.path = path]
    /\ UNCHANGED <<gitignore_files, config, probe, submodules, launch,
                   pending_commits, commit_timers, timer_lock,
                   gitignore_patterns, timers, main, fetch_timer, poller, job,
                   since>>

\* The event source dispatches an event to the handler (one at a time, from
\* observer.start() until observer.stop()).  A directory event returns at
\* once.
on_event(path, is_directory) ==
    /\ handler.pc = "idle"
    /\ main \in Watching
    /\ \E t \in TimerIds : FreeSlot(t)
    /\ IF is_directory
       THEN UNCHANGED handler
       ELSE handler' = [IdleHandler EXCEPT !.pc = "check", !.path = path]
    /\ UNCHANGED <<gitignore_files, config, probe, submodules, launch,
                   pending_commits, commit_timers, timer_lock,
                   gitignore_patterns, timers, main, fetch_timer, poller, job,
                   since>>

\* handle_file_change without the return of line 145.
handle_file_change_no_return ==
    /\ handler.pc = "check"
    /\ LET r == should_ignore(all_patterns, handler.path,
                              config.respect_gitignore, gitignore_patterns,
                              gitignore_files)
       IN  /\ gitignore_patterns' = r.cache
           /\ handler' = [handler EXCEPT !.pc = "lock",
                                         !.dir = target_dir_of(handler.path)]
    /\ UNCHANGED <<gitignore_files, config, probe, submodules, launch,
                   pending_commits, commit_timers, timer_lock, timers, main,
                   fetch_timer, poller, job, since>>

\* _handle_file_change, lines 143-157: the ignore check and the target.
handle_file_change ==
    /\ handler.pc = "check"
    /\ LET r == should_ignore(all_patterns, handler.path,
                              config.respect_gitignore, gitignore_patterns,
                              gitignore_files)
       IN  /\ gitignore_patterns' = r.cache
           /\ handler' = IF r.ignored THEN IdleHandler
                         ELSE [handler EXCEPT !.pc = "lock",
                                              !.dir = target_dir_of(handler.path)]
    /\ UNCHANGED <<gitignore_files, config, probe, submodules, launch,
                   pending_commits, commit_timers, timer_lock, timers, main,
                   fetch_timer, poller, job, since>>

\* _handle_file_change, line 160: `with self.timer_lock`.
handle_file_change_lock ==
    /\ handler.pc = "lock"
    /\ timer_lock = Free
    /\ timer_lock' = ObserverThread
    /\ handler' = [handler EXCEPT !.pc = "body"]
    /\ UNCHANGED <<gitignore_files, config, probe, submodules, launch,
                   pending_commits, commit_timers, gitignore_patterns, timers,
                   main, fetch_timer, poller, job, since>>

\* Timer.cancel(): a Timer that still waits never calls its function; one
\* whose function was already called is not affected.
Cancelled(tm) == IF tm.pc = "armed" THEN NoTimer ELSE tm

\* handle_file_change_body with lines 170-172 under an `else` of line 166:
\* a directory that has a timer gets it cancelled and no new one.
handle_file_change_body_cancel_only ==
    /\ handler.pc = "body"
    /\ LET dir_key == handler.dir
           new == CHOOSE t \in TimerIds :
                      FreeSlot(t) /\ \A u \in TimerIds : FreeSlot(u) => t <= u
           old == IF dir_key \in DOMAIN pending_commits
                  THEN pending_commits[dir_key] ELSE {}
       IN  /\ pending_commits' =
                  (dir_key :> (old \cup {handler.path})) @@ pending_commits
           /\ IF dir_key \in DOMAIN commit_timers
              THEN /\ timers' = [timers EXCEPT
                                     ![commit_timers[dir_key]] = Cancelled(@)]
                   /\ UNCHANGED commit_timers
              ELSE /\ timers' = [timers EXCEPT ![new] =
                          [NoTimer EXCEPT !.pc = "armed", !.dir = dir_key,
                                          !.left = CommitDelay]]
                   /\ commit_timers' = (dir_key :> new) @@ commit_timers
           /\ since' = [since EXCEPT ![dir_key] = 0]
    /\ timer_lock' = Free
    /\ handler' = IdleHandler
    /\ UNCHANGED <<gitignore_files, config, probe, submodules, launch,
                   gitignore_patterns, main, fetch_timer, poller, job>>

\* _handle_file_change, lines 161-175: add the path, cancel the directory's
\* timer, start a new one, release the lock.
handle_file_change_body ==
    /\ handler.pc = "body"
    /\ LET dir_key == handler.dir
           new == CHOOSE t \in TimerIds :
                      FreeSlot(t) /\ \A u \in TimerIds : FreeSlot(u) => t <= u
           old == IF dir_key \in DOMAIN pending_commits
                  THEN pending_commits[dir_key] ELSE {}
           cancelled == IF dir_key \in DOMAIN commit_timers
                        THEN [timers EXCEPT ![commit_timers[dir_key]] = Cancelled(@)]
                        ELSE timers
       IN  /\ pending_commits' =
                  (dir_key :> (old \cup {handler.path})) @@ pending_commits
           /\ timers' = [cancelled EXCEPT ![new] =
                  [NoTimer EXCEPT !.pc = "armed", !.dir = dir_key,
                                  !.left = CommitDelay]]
           /\ commit_timers' = (dir_key :> new) @@ commit_timers
           /\ since' = [since EXCEPT ![dir_key] = 0]
    /\ timer_lock' = Free
    /\ handler' = IdleHandler
    /\ UNCHANGED <<gitignore_files, config, probe, submodules, launch,
                   gitignore_patterns, main, fetch_timer, poller, job>>

\* ------------------------------------------------------------------------
\* The debounce Timer threads: Timer.run and _execute_delayed_commit.

\* Timer.run: the interval is over and `finished` is clear, so the function
\* is called.
timer_expire(t) ==
    /\ timers[t].pc = "armed"
    /\ timers[t].left = 0
    /\ timers' = [timers EXCEPT ![t].pc = "fired"]
    /\ UNCHANGED <<gitignore_files, config, probe, submodules, launch,
                   pending_commits, commit_timers, timer_lock,
                   gitignore_patterns, handler, main, fetch_timer, poller, job,
                   since>>

\* _execute_delayed_commit, line 179: `with self.timer_lock`.
execute_delayed_commit_lock(t) ==
    /\ timers[t].pc = "fired"
    /\ timer_lock = Free
    /\ timer_lock' = TimerThread(t)
    /\ timers' = [timers EXCEPT ![t].pc = "locked"]
    /\ UNCHANGED <<gitignore_files, config, probe, submodules, launch,
                   pending_commits, commit_timers, gitignore_patterns, handler,
                   main, fetch_timer, poller, job, since>>

\* execute_delayed_commit with the git calls inside the `with` block: the
\* lock is still held when the commit starts.
execute_delayed_commit_lock_kept(t) ==
    /\ timers[t].pc = "locked"
    /\ LET dir_key == timers[t].dir IN
       IF dir_key \notin DOMAIN pending_commits
       THEN /\ timers' = [timers EXCEPT ![t] = NoTimer]
            /\ timer_lock' = Free
            /\ UNCHANGED <<pending_commits, commit_timers>>
       ELSE /\ timers' = [timers EXCEPT ![t].pc = "stage",
                                        ![t].changed = pending_commits[dir_key]]
            /\ pending_commits' = MapDel(pending_commits, dir_key)
            /\ commit_timers' = MapDel(commit_timers, dir_key)
            /\ UNCHANGED timer_lock
    /\ UNCHANGED <<gitignore_files, config, probe, submodules, launch,
                   gitignore_patterns, handler, main, fetch_timer, poller, job,
                   since>>

\* execute_delayed_commit without the `del` of line 184: the set is copied
\* and stays in pending_commits.
execute_delayed_commit_no_del(t) ==
    /\ timers[t].pc = "locked"
    /\ LET dir_key == timers[t].dir IN
       IF dir_key \notin DOMAIN pending_commits
       THEN /\ timers' = [timers EXCEPT ![t] = NoTimer]
            /\ UNCHANGED <<pending_commits, commit_timers>>
       ELSE /\ timers' = [timers EXCEPT ![t].pc = "stage",
                                        ![t].changed = pending_commits[dir_key]]
            /\ commit_timers' = MapDel(commit_timers, dir_key)
            /\ UNCHANGED pending_commits
    /\ timer_lock' = Free
    /\ UNCHANGED <<gitignore_files, config, probe, submodules, launch,
                   gitignore_patterns, handler, main, fetch_timer, poller, job,
                   since>>

\* execute_delayed_commit with `self.pending_commits.pop(dir_key, set())` in
\* place of lines 180-184: a directory without a pending set is committed
\* with an empty one.
execute_delayed_commit_no_return(t) ==
    /\ timers[t].pc = "locked"
    /\ LET dir_key == timers[t].dir IN
       /\ timers' = [timers EXCEPT
              ![t].pc = "stage",
              ![t].changed = IF dir_key \in DOMAIN pending_commits
                             THEN pending_commits[dir_key] ELSE {}]
       /\ pending_commits' = MapDel(pending_commits, dir_key)
       /\ commit_timers' = MapDel(commit_timers, dir_key)
    /\ timer_lock' = Free
    /\ UNCHANGED <<gitignore_files, config, probe, submodules, launch,
                   gitignore_patterns, handler, main, fetch_timer, poller, job,
                   since>>

\* _execute_delayed_commit, lines 180-187: return when the directory has no
\* pending set; otherwise take the set, delete it and the directory's timer
\* entry, and release the lock.
execute_delayed_commit(t) ==
    /\ timers[t].pc = "locked"
    /\ LET dir_key == timers[t].dir IN
       IF dir_key \notin DOMAIN pending_commits
       THEN /\ timers' = [timers EXCEPT ![t] = NoTimer]
            /\ UNCHANGED <<pending_commits, commit_timers>>
       ELSE /\ timers' = [timers EXCEPT ![t].pc = "stage",
                                        ![t].changed = pending_commits[dir_key]]
            /\ pending_commits' = MapDel(pending_commits, dir_key)
            /\ commit_timers' = MapDel(commit_timers, dir_key)
    /\ timer_lock' = Free
    /\ UNCHANGED <<gitignore_files, config, probe, submodules, launch,
                   gitignore_patterns, handler, main, fetch_timer, poller, job,
                   since>>

\* ------------------------------------------------------------------------
\* The commit sequences.  A git command ends "ok" (return code 0), "fail"
\* (another return code) or "raise" (subprocess.run raised, which
\* _run_git_command logs and raises again).

Outcomes == {"ok", "fail", "raise"}

\* A worker (a Timer thread or the main thread at startup) leaves its commit
\* sequence: it returned, or an exception left it.
Leave(w, raised) == [w EXCEPT !.pc = "exit", !.exc = raised]

\* Lines 252-253, 287-288, 486-487: _send_commit_notification is called when
\* both settings are on; it catches what notify-send raises.
Notified(w, cfg) ==
    [w EXCEPT !.notified =
         IF cfg.enable_notifications /\ cfg.notify_on_commit THEN @ + 1 ELSE @]

\* commit_submodule_update without the test of line 290: the root is pushed
\* after every successful reference-update commit.
commit_submodule_update_push_always(w, cfg, out) ==
    CASE w.pc = "upd_stage" ->
             IF out = "ok" THEN [w EXCEPT !.pc = "upd_diff", !.staged = @ + 1]
             ELSE [Leave(w, out = "raise") EXCEPT !.staged = @ + 1]
      [] w.pc = "upd_diff" ->
             IF out = "fail" THEN [w EXCEPT !.pc = "upd_commit"]
             ELSE Leave(w, out = "raise")
      [] w.pc = "upd_commit" ->
             IF out = "ok"
             THEN [Notified(w, cfg) EXCEPT !.pc = "upd_push"]
             ELSE Leave(w, out = "raise")
      [] w.pc = "upd_push" -> Leave(w, out = "raise")

\* _commit_submodule_update, lines 260-291, one git command at a time.
commit_submodule_update(w, cfg, out) ==
    CASE w.pc = "upd_stage" ->
             IF out = "ok" THEN [w EXCEPT !.pc = "upd_diff", !.staged = @ + 1]
             ELSE [Leave(w, out = "raise") EXCEPT !.staged = @ + 1]
      [] w.pc = "upd_diff" ->
             IF out = "fail" THEN [w EXCEPT !.pc = "upd_commit"]
             ELSE Leave(w, out = "raise")
      [] w.pc = "upd_commit" ->
             IF out = "ok"
             THEN IF cfg.auto_push
                  THEN [Notified(w, cfg) EXCEPT !.pc = "upd_push"]
                  ELSE Leave(Notified(w, cfg), FALSE)
             ELSE Leave(w, out = "raise")
      [] w.pc = "upd_push" -> Leave(w, out = "raise")

\* commit_squashed_main_repo without the return of line 237: a stage that
\* returned non-zero is followed by the commit all the same.
commit_squashed_main_repo_no_return(w, cfg, out) ==
    CASE w.pc = "stage" ->
             IF out = "raise" THEN Leave(w, TRUE) ELSE [w EXCEPT !.pc = "status"]
      [] w.pc = "status" -> [w EXCEPT !.pc = "commit"]
      [] w.pc = "commit" ->
             IF out = "ok"
             THEN IF cfg.auto_push
                  THEN [Notified(w, cfg) EXCEPT !.pc = "push", !.committed = TRUE]
                  ELSE [Leave(Notified(w, cfg), FALSE) EXCEPT !.committed = TRUE]
             ELSE Leave(w, out = "raise")
      [] w.pc = "push" -> Leave(w, out = "raise")

\* _commit_squashed_main_repo, lines 229-258.
commit_squashed_main_repo(w, cfg, out) ==
    CASE w.pc = "stage" ->
             IF out = "ok" THEN [w EXCEPT !.pc = "status"]
             ELSE Leave(w, out = "raise")
      [] w.pc = "status" ->
             \* _create_squashed_commit_message catches what the runner raises
             [w EXCEPT !.pc = "commit"]
      [] w.pc = "commit" ->
             IF out = "ok"
             THEN IF cfg.auto_push
                  THEN [Notified(w, cfg) EXCEPT !.pc = "push", !.committed = TRUE]
                  ELSE [Leave(Notified(w, cfg), FALSE) EXCEPT !.committed = TRUE]
             ELSE Leave(w, out = "raise")
      [] w.pc = "push" -> Leave(w, out = "raise")

\* _commit_squashed_submodule, lines 197-227.
commit_squashed_submodule(w, cfg, out) ==
    CASE w.pc = "stage" ->
             IF out = "ok" THEN [w EXCEPT !.pc = "status"]
             ELSE Leave(w, out = "raise")
      [] w.pc = "status" -> [w EXCEPT !.pc = "commit"]
      [] w.pc = "commit" ->
             IF out = "ok"
             THEN [w EXCEPT !.pc = IF cfg.auto_push THEN "push" ELSE "upd_stage",
                            !.committed = TRUE]
             ELSE Leave(w, out = "raise")
      [] w.pc = "push" ->
             IF out = "raise" THEN Leave(w, TRUE)
             ELSE [w EXCEPT !.pc = "upd_stage"]
      [] OTHER -> commit_submodule_update(w, cfg, out)

\* Whether target_dir is in self.submodules (core.py line 192).
in_submodules(dir) == \E i \in 1..Len(submodules) : submodules[i] = dir

RECURSIVE run_squashed(_, _)
\* _commit_squashed_submodule / _commit_squashed_main_repo run in the target's
\* own directory, with every outcome of every git command: the states in which
\* the worker leaves that directory (it goes on to _commit_submodule_update, or
\* the call is over).
run_squashed(w, cfg) ==
    IF w.pc \in {"upd_stage", "exit"} THEN {w}
    ELSE UNION {run_squashed(IF in_submodules(w.dir)
                             THEN commit_squashed_submodule(w, cfg, out)
                             ELSE commit_squashed_main_repo(w, cfg, out), cfg)
                : out \in Outcomes}

RECURSIVE run_submodule_update(_, _)
\* _commit_submodule_update run to its end, with every outcome of every git
\* command.
run_submodule_update(w, cfg) ==
    IF w.pc = "exit" THEN {w}
    ELSE UNION {run_submodule_update(commit_submodule_update(w, cfg, out), cfg)
                : out \in Outcomes}

\* _execute_delayed_commit, lines 189-195: the Timer thread runs the git
\* commands of the target's own directory.  When the call is over, Timer.run
\* sets `finished` and the thread ends.
timer_commit(t) ==
    /\ timers[t].pc = "stage"
    /\ \E w \in run_squashed(timers[t], config) :
           timers' = [timers EXCEPT ![t] = IF w.pc = "exit" THEN NoTimer ELSE w]
    /\ UNCHANGED <<gitignore_files, config, probe, submodules, launch,
                   pending_commits, commit_timers, timer_lock,
                   gitignore_patterns, handler, main, fetch_timer, poller, job,
                   since>>

\* _commit_squashed_submodule, line 227: the Timer thread runs
\* _commit_submodule_update in the root, and ends.
timer_submodule_update(t) ==
    /\ timers[t].pc = "upd_stage"
    /\ \E w \in run_submodule_update(timers[t], config) :
           timers' = [timers EXCEPT ![t] = NoTimer]
    /\ UNCHANGED <<gitignore_files, config, probe, submodules, launch,
                   pending_commits, commit_timers, timer_lock,
                   gitignore_patterns, handler, main, fetch_timer, poller, job,
                   since>>

\* One clock tick: every waiting Timer is one tick nearer to its expiry.
Tick ==
    /\ \/ \E t \in TimerIds : timers[t].pc = "armed" /\ timers[t].left > 0
       \/ \E d \in Dirs : since[d] < CommitDelay
    /\ timers' = [t \in TimerIds |->
           IF timers[t].pc = "armed" /\ timers[t].left > 0
           THEN [timers[t] EXCEPT !.left = @ - 1] ELSE timers[t]]
    /\ since' = [d \in Dirs |->
           IF since[d] < CommitDelay THEN since[d] + 1 ELSE since[d]]
    /\ UNCHANGED <<gitignore_files, config, probe, submodules, launch,
                   pending_commits, commit_timers, timer_lock,
                   gitignore_patterns, handler, main, fetch_timer, poller,
                   job>>

\* ------------------------------------------------------------------------
\* The main thread: run_watcher's sleep loop, stop(), observer.stop().

\* run_watcher, lines 566-568: KeyboardInterrupt; stop() is called and
\* reaches `with self.timer_lock`.
stop_begin ==
    /\ main = "running"
    /\ main' = "stop"
    /\ UNCHANGED <<gitignore_files, config, probe, submodules, launch,
                   pending_commits, commit_timers, timer_lock,
                   gitignore_patterns, timers, handler, fetch_timer, poller,
                   job, since>>

\* stop_lock without the lock: stop() goes on to cancel the timers at once.
stop_lock_not_taken ==
    /\ main = "stop"
    /\ main' = "stop_locked"
    /\ UNCHANGED <<gitignore_files, config, probe, submodules, launch,
                   pending_commits, commit_timers, timer_lock,
                   gitignore_patterns, timers, handler, fetch_timer, poller,
                   job, since>>

\* stop, line 503: `with self.timer_lock`.
stop_lock ==
    /\ main = "stop"
    /\ timer_lock = Free
    /\ timer_lock' = MainThread
    /\ main' = "stop_locked"
    /\ UNCHANGED <<gitignore_files, config, probe, submodules, launch,
                   pending_commits, commit_timers, gitignore_patterns, timers,
                   handler, fetch_timer, poller, job, since>>

\* stop_cancel with `self.pending_commits.clear()` after line 506.
stop_cancel_clears_pending ==
    /\ main = "stop_locked"
    /\ timers' = [t \in TimerIds |->
           IF \E d \in DOMAIN commit_timers : commit_timers[d] = t
           THEN Cancelled(timers[t]) ELSE timers[t]]
    /\ commit_timers' = EmptyMap
    /\ pending_commits' = EmptyMap
    /\ timer_lock' = Free
    /\ main' = "stop_fetch"
    /\ UNCHANGED <<gitignore_files, config, probe, submodules, launch,
                   gitignore_patterns, handler, fetch_timer, poller, job,
                   since>>

\* stop, lines 504-506: cancel every Timer in commit_timers, clear the map,
\* release the lock.
stop_cancel ==
    /\ main = "stop_locked"
    /\ timers' = [t \in TimerIds |->
           IF \E d \in DOMAIN commit_timers : commit_timers[d] = t
           THEN Cancelled(timers[t]) ELSE timers[t]]
    /\ commit_timers' = EmptyMap
    /\ timer_lock' = Free
    /\ main' = "stop_fetch"
    /\ UNCHANGED <<gitignore_files, config, probe, submodules, launch,
                   pending_commits, gitignore_patterns, handler, fetch_timer,
                   poller, job, since>>

\* stop, lines 508-509: cancel the Timer self.fetch_timer refers to; stop()
\* returns.
stop_fetch ==
    /\ main = "stop_fetch"
    /\ fetch_timer' = IF fetch_timer \in {"armed", "created"}
                     THEN "cancelled" ELSE fetch_timer
    /\ main' = "stopped"
    /\ UNCHANGED <<gitignore_files, config, probe, submodules, launch,
                   pending_commits, commit_timers, timer_lock,
                   gitignore_patterns, timers, handler, poller, job, since>>

\* run_watcher, line 569: observer.stop(); no further event is dispatched.
observer_stop ==
    /\ main = "stopped"
    /\ main' = "observer_stopped"
    /\ UNCHANGED <<gitignore_files, config, probe, submodules, launch,
                   pending_commits, commit_timers, timer_lock,
                   gitignore_patterns, timers, handler, fetch_timer, poller,
                   job, since>>

\* run_watcher, line 570: observer.join() returns once the observer thread
\* has finished the event it was handling.
observer_join ==
    /\ main = "observer_stopped"
    /\ handler.pc = "idle"
    /\ main' = "joined"
    /\ UNCHANGED <<gitignore_files, config, probe, submodules, launch,
                   pending_commits, commit_timers, timer_lock,
                   gitignore_patterns, timers, handler, fetch_timer, poller,
                   job, since>>

\* ------------------------------------------------------------------------
\* The engine after construction: events, debounce timers, commits, stop().
\* The poller shares no state with these but self.fetch_timer, which stop()
\* cancels; its cycles are SpecPoll's.

Next ==
    \/ \E p \in Paths, is_directory \in BOOLEAN : on_event(p, is_directory)
    \/ handle_file_change
    \/ handle_file_change_lock
    \/ handle_file_change_body
    \/ \E t \in TimerIds : timer_expire(t)
    \/ \E t \in TimerIds : execute_delayed_commit_lock(t)
    \/ \E t \in TimerIds : execute_delayed_commit(t)
    \/ \E t \in TimerIds : timer_commit(t)
    \/ \E t \in TimerIds : timer_submodule_update(t)
    \/ Tick
    \/ stop_begin
    \/ stop_lock
    \/ stop_cancel
    \/ stop_fetch
    \/ observer_stop
    \/ observer_join

Spec == Init /\ [][Next]_vars

\* ------------------------------------------------------------------------
\* Claims about the debounce timers, the lock and stop().

\* A Timer thread is running a commit: between taking the pending set and the
\* end of _execute_delayed_commit.
Committing(t) == timers[t].pc \in {"stage", "upd_stage"}

\* A Timer thread takes the pending set and starts its commit in this step.
CommitBegins(t) == timers[t].pc = "locked" /\ timers'[t].pc = "stage"

\* stop() has returned.
StopReturned == main \in {"stopped", "observer_stopped", "joined"}

\* The Timers of a directory that were started, were not cancelled and have
\* not yet called _execute_delayed_commit.
ArmedTimers(d) == {t \in TimerIds : timers[t].pc = "armed" /\ timers[t].dir = d}

\* C1: a commit attempt for a target begins no earlier than commit_delay after
\* the last accepted event of that target (the last event of the burst the
\* attempt commits).
C1_CommitAfterDelay ==
    [][\A t \in TimerIds :
           CommitBegins(t) => since[timers[t].dir] >= CommitDelay]_vars

\* C2: at most one commit is executing for a target at any time.
C2_OneCommitPerTarget ==
    \A d \in Dirs :
        Cardinality({t \in TimerIds : Committing(t) /\ timers[t].dir = d}) <= 1

\* C3: once stop() has returned, no commit attempt begins for any target.
C3_NoCommitAfterStop ==
    [][StopReturned => \A t \in TimerIds : ~CommitBegins(t)]_vars

\* C5: at most one armed timer per target.
C5_OneArmedTimerPerTarget ==
    \A d \in Dirs : Cardinality(ArmedTimers(d)) <= 1

\* C6: the handling of an event whose path the ignore matcher flags is one
\* step that leaves the pending sets, the timer map and every Timer as they
\* were, and ends the handler.
C6_IgnoredEventNoEffect ==
    [][(/\ handler.pc = "check"
        /\ handler' # handler
        /\ should_ignore(all_patterns, handler.path,
                         config.respect_gitignore, gitignore_patterns,
                         gitignore_files).ignored)
       => /\ handler' = IdleHandler
          /\ UNCHANGED <<pending_commits, commit_timers, timers>>]_vars

\* An ignored path outside the watch root is being handled while a set is
\* pending and its timer is armed.
C6_Witness ==
    /\ handler.pc = "check"
    /\ handler.path = FileO
    /\ should_ignore(all_patterns, handler.path,
                     config.respect_gitignore, gitignore_patterns,
                              gitignore_files).ignored
    /\ repo_dir \in DOMAIN pending_commits
    /\ ArmedTimers(repo_dir) # {}

\* The thread that is inside one of the three blocks that read and write
\* pending_commits and commit_timers holds timer_lock.
InBlockHoldsLock ==
    /\ handler.pc = "body" => timer_lock = ObserverThread
    /\ \A t \in TimerIds : timers[t].pc = "locked" => timer_lock = TimerThread(t)
    /\ main = "stop_locked" => timer_lock = MainThread

\* C7: pending_commits and commit_timers are read and changed only under
\* timer_lock: a thread inside a block that accesses them holds the lock, and
\* every step that changes either map is taken with the lock held.
C7_MapsUnderLock ==
    /\ []InBlockHoldsLock
    /\ [][(pending_commits' # pending_commits \/ commit_timers' # commit_timers)
          => timer_lock # Free]_vars

\* The observer is inside its block while a Timer thread and stop() both wait
\* for the lock.
C7_Witness ==
    /\ handler.pc = "body"
    /\ timer_lock = ObserverThread
    /\ \E t \in TimerIds : timers[t].pc = "fired"
    /\ main = "stop"

\* C8: a Timer thread that is running git commands does not hold timer_lock.
C8_NoLockDuringGit ==
    \A t \in TimerIds : Committing(t) => timer_lock # TimerThread(t)

\* An event of a directory is bucketed (the observer holds the lock) while a
\* commit for that directory is in flight.
C8_Witness ==
    /\ handler.pc = "body"
    /\ timer_lock = ObserverThread
    /\ \E t \in TimerIds : Committing(t) /\ timers[t].dir = handler.dir

\* C19: a Timer thread that starts its commit takes the target's pending set
\* and removes the set and the target's timer entry in the one step it takes
\* under the lock, before it has run any git command; an event accepted for
\* the target while that commit is in flight leaves the set handed to the
\* commit as it is, starts a new pending set (of its path alone when it is
\* the first such event) and arms a new Timer for the full delay.
C19_SwapThenFreshCycle ==
    [][/\ \A t \in TimerIds :
              CommitBegins(t) =>
                  LET d == timers[t].dir IN
                  /\ timer_lock = TimerThread(t)
                  /\ d \notin DOMAIN pending_commits'
                  /\ d \notin DOMAIN commit_timers'
                  /\ timers'[t].changed = pending_commits[d]
                  /\ timers'[t].calls = <<>>
                  /\ ~timers'[t].committed
                  /\ timers'[t].staged = 0
       /\ (handler.pc = "body" /\ handler'.pc = "idle") =>
              \A t \in TimerIds :
                  (Committing(t) /\ timers[t].dir = handler.dir) =>
                      LET d == handler.dir IN
                      /\ timers'[t] = timers[t]
                      /\ d \notin DOMAIN pending_commits =>
                             pending_commits'[d] = {handler.path}
                      /\ handler.path \in pending_commits'[d]
                      /\ d \in DOMAIN commit_timers'
                      /\ commit_timers'[d] # t
                      /\ timers'[commit_timers'[d]].pc = "armed"
                      /\ timers'[commit_timers'[d]].left = CommitDelay]_vars

\* A commit for the root is in flight with the set {w/a}; an event for w/b
\* was accepted meanwhile: w/b is pending alone and a new Timer is armed.
C19_Witness ==
    \E t \in TimerIds :
        /\ Committing(t)
        /\ timers[t].dir = repo_dir
        /\ timers[t].changed = {FileA}
        /\ repo_dir \in DOMAIN pending_commits
        /\ pending_commits[repo_dir] = {FileB}
        /\ repo_dir \in DOMAIN commit_timers
        /\ timers[commit_timers[repo_dir]].pc = "armed"

\* C20: outside the critical sections a target has an entry in commit_timers
\* if and only if it has a non-empty pending set, also after stop().
C20_TimerIffPending ==
    timer_lock = Free =>
        \A d \in Dirs :
            d \in DOMAIN commit_timers <=>
                (d \in DOMAIN pending_commits /\ pending_commits[d] # {})

\* ------------------------------------------------------------------------
\* The poller: start_fetch_timer, _periodic_fetch, _fetch_and_check_changes.

\* The directories _periodic_fetch polls, in its order (lines 368-375).
poll_targets == <<repo_dir>> \o submodules

\* Path.name
name_of(path) == path[Len(path)]

\* What git prints: commit hashes, branch names (empty on a detached HEAD),
\* rev-list counts.
Heads == {"h1", "h2"}
Branches == {"main", ""}
Counts == {"0", "1", "2"}

\* The stdout a successful git command of _fetch_and_check_changes may have.
Outputs(pc) ==
    CASE pc \in {"head", "remote"} -> Heads
      [] pc = "branch" -> Branches
      [] pc = "count" -> Counts
      [] OTHER -> {""}

None == <<>>

\* f"{commit_count} new commit{'s' if commit_count != '1' else ''}"
Report(commit_count) ==
    <<commit_count, IF commit_count # "1" THEN "new commits" ELSE "new commit">>

\* d[k] = v on a dict kept as a sequence of <<key, value>> in insertion order.
DictSet(d, k, v) ==
    IF \E i \in 1..Len(d) : d[i][1] = k
    THEN [i \in 1..Len(d) |-> IF d[i][1] = k THEN <<k, v>> ELSE d[i]]
    ELSE Append(d, <<k, v>>)

\* _periodic_fetch, lines 368-375: _fetch_and_check_changes returned `changes`
\* for the target p.idx; go on to the next target, or to the notification.
Polled(p, changes) ==
    LET q == IF p.idx = 1 THEN [p EXCEPT !.main_changes = changes]
             ELSE IF changes # None
                  THEN [p EXCEPT !.submodule_changes =
                            DictSet(@, name_of(poll_targets[p.idx]), changes)]
                  ELSE p
    IN  IF p.idx < Len(poll_targets)
        THEN [q EXCEPT !.pc = "head", !.idx = @ + 1,
                       !.returned = Append(@, changes)]
        ELSE [q EXCEPT !.pc = "notify", !.returned = Append(@, changes)]

\* A call of _fetch_and_check_changes begins: its locals are unassigned.
Called(p) ==
    IF p.pc = "head"
    THEN [p EXCEPT !.old_head = "", !.current_branch = "",
                   !.remote_head = "", !.commit_count = ""]
    ELSE p

\* fetch_and_check_changes without the comparison of line 416: the commits
\* are counted and reported whether or not the heads differ.
fetch_and_check_changes_no_compare(p0, out, stdout) ==
    LET p == Called(p0) IN
    IF out = "raise" THEN [p EXCEPT !.pc = "dead"]
    ELSE IF out = "fail" THEN Polled(p, None)
    ELSE CASE p.pc = "head" -> [p EXCEPT !.pc = "fetch", !.old_head = stdout]
           [] p.pc = "fetch" -> [p EXCEPT !.pc = "branch"]
           [] p.pc = "branch" ->
                  IF stdout = "" THEN Polled(p, None)
                  ELSE [p EXCEPT !.pc = "remote", !.current_branch = stdout]
           [] p.pc = "remote" -> [p EXCEPT !.pc = "count", !.remote_head = stdout]
           [] p.pc = "count" ->
                  Polled([p EXCEPT !.commit_count = stdout], Report(stdout))

\* _fetch_and_check_changes, lines 385-427: the git command at p.pc ended with
\* `out` and printed `stdout`.  What the runner raises is not caught: it ends
\* _periodic_fetch and the thread.
fetch_and_check_changes(p0, out, stdout) ==
    LET p == Called(p0) IN
    IF out = "raise" THEN [p EXCEPT !.pc = "dead"]
    ELSE IF out = "fail" THEN Polled(p, None)
    ELSE CASE p.pc = "head" -> [p EXCEPT !.pc = "fetch", !.old_head = stdout]
           [] p.pc = "fetch" -> [p EXCEPT !.pc = "branch"]
           [] p.pc = "branch" ->
                  IF stdout = "" THEN Polled(p, None)
                  ELSE [p EXCEPT !.pc = "remote", !.current_branch = stdout]
           [] p.pc = "remote" ->
                  IF p.old_head # stdout
                  THEN [p EXCEPT !.pc = "count", !.remote_head = stdout]
                  ELSE Polled([p EXCEPT !.remote_head = stdout], None)
           [] p.pc = "count" ->
                  Polled([p EXCEPT !.commit_count = stdout], Report(stdout))

\* _send_change_notification, lines 429-450: one notification for the root
\* if it changed, then one per entry of submodule_changes.
send_change_notification(main_changes, submodule_changes) ==
    (IF main_changes # None THEN << <<"Main repo", main_changes>> >> ELSE <<>>)
    \o submodule_changes

PollPcs == {"head", "fetch", "branch", "remote", "count"}

\* fetch_timer_expire for a timer that arms itself again when it fires.
fetch_timer_expire_repeating ==
    /\ fetch_timer = "armed"
    /\ poller.pc = "wait"
    /\ fetch_timer' = "armed"
    /\ poller' = [IdlePoller EXCEPT !.pc = "head", !.idx = 1]
    /\ UNCHANGED <<gitignore_files, config, probe, submodules, launch,
                   pending_commits, commit_timers, timer_lock,
                   gitignore_patterns, timers, handler, main, job, since>>

\* Timer.run of the fetch timer: the interval is over and `finished` is
\* clear, so _periodic_fetch is called.
fetch_timer_expire ==
    /\ fetch_timer = "armed"
    /\ poller.pc = "wait"
    /\ fetch_timer' = "fired"
    /\ poller' = [IdlePoller EXCEPT !.pc = "head", !.idx = 1]
    /\ UNCHANGED <<gitignore_files, config, probe, submodules, launch,
                   pending_commits, commit_timers, timer_lock,
                   gitignore_patterns, timers, handler, main, job, since>>

\* _periodic_fetch runs the next git command of _fetch_and_check_changes.
periodic_fetch_step(out, stdout) ==
    /\ poller.pc \in PollPcs
    /\ stdout \in Outputs(poller.pc)
    /\ poller' = fetch_and_check_changes(poller, out, stdout)
    /\ UNCHANGED <<gitignore_files, config, probe, submodules, launch,
                   pending_commits, commit_timers, timer_lock,
                   gitignore_patterns, timers, handler, main, fetch_timer, job,
                   since>>

\* _periodic_fetch, lines 378-380.
periodic_fetch_notify ==
    /\ poller.pc = "notify"
    /\ poller' = [poller EXCEPT
           !.pc = "rearm",
           !.sent = IF /\ (poller.main_changes # None
                           \/ poller.submodule_changes # <<>>)
                       /\ config.enable_notifications
                       /\ config.notify_on_remote_changes
                    THEN send_change_notification(poller.main_changes,
                                                  poller.submodule_changes)
                    ELSE <<>>]
    /\ UNCHANGED <<gitignore_files, config, probe, submodules, launch,
                   pending_commits, commit_timers, timer_lock,
                   gitignore_patterns, timers, handler, main, fetch_timer, job,
                   since>>

\* start_fetch_timer, lines 356-359, called at line 383: cancel() the Timer
\* self.fetch_timer refers to (the one whose function is running: no effect)
\* and assign a new Timer.
start_fetch_timer ==
    /\ poller.pc = "rearm"
    /\ fetch_timer' = "created"
    /\ poller' = [poller EXCEPT !.pc = "start"]
    /\ UNCHANGED <<gitignore_files, config, probe, submodules, launch,
                   pending_commits, commit_timers, timer_lock,
                   gitignore_patterns, timers, handler, main, job, since>>

\* start_fetch_timer, line 360: start() the new Timer; one that was cancelled
\* before its start never calls its function.  _periodic_fetch is over.
start_fetch_timer_start ==
    /\ poller.pc = "start"
    /\ fetch_timer' = IF fetch_timer = "created" THEN "armed" ELSE fetch_timer
    /\ poller' = [poller EXCEPT !.pc = "wait"]
    /\ UNCHANGED <<gitignore_files, config, probe, submodules, launch,
                   pending_commits, commit_timers, timer_lock,
                   gitignore_patterns, timers, handler, main, job, since>>

\* The poller and stop(), after construction.
NextPoll ==
    \/ fetch_timer_expire
    \/ \E out \in Outcomes, stdout \in Heads \cup Branches \cup Counts :
           periodic_fetch_step(out, stdout)
    \/ periodic_fetch_notify
    \/ start_fetch_timer
    \/ start_fetch_timer_start
    \/ stop_begin
    \/ stop_lock
    \/ stop_cancel
    \/ stop_fetch
    \/ observer_stop
    \/ observer_join

\* What the command of _get_submodules prints for a repository with two
\* submodules of the same name.
sm_path_namesakes == << <<"s">>, <<"x", "/", "s">> >>

\* The engine constructed from any configuration, for either repository.
InitPoll ==
    /\ config \in Configs
    /\ submodules \in {get_submodules("ok", stdout) :
                           stdout \in {sm_path, sm_path_namesakes}}
    /\ Constructed

SpecPoll == InitPoll /\ [][NextPoll]_vars

\* ------------------------------------------------------------------------
\* Claims about the poller.

\* A poll cycle is in flight: _periodic_fetch was called and has neither
\* returned nor been left by an exception.
CycleInFlight == poller.pc \in PollPcs \cup {"notify", "rearm", "start"}

\* C4: once stop() has returned, no fetch timer is armed.
C4_NoFetchTimerAfterStop == StopReturned => fetch_timer # "armed"

\* What _fetch_and_check_changes returned for the target poll_targets[i] in
\* this cycle: its report, or None (also when the call did not return).
Reported(p, i) == IF i <= Len(p.returned) THEN p.returned[i] ELSE None

\* The call of _fetch_and_check_changes for the target poll_targets[i] ends
\* in this step: it returns, or an exception leaves it.
CallEnds(i) ==
    /\ poller.pc \in PollPcs
    /\ poller.idx = i
    /\ \/ poller'.idx = i + 1
       \/ poller'.pc \in {"notify", "dead"}

\* In the call that ended, both heads were resolved and differ.
HeadsDiffer(p) ==
    /\ p.old_head # ""
    /\ p.remote_head # ""
    /\ p.old_head # p.remote_head

\* C13 as stated: a target is reported as changed if and only if its local
\* head captured before the fetch differs from the resolved origin/<branch>
\* head, and the count in the report is the output of rev-list --count.
C13_ReportedIffHeadsDiffer ==
    [][\A i \in 1..Len(poll_targets) :
           CallEnds(i) =>
               /\ Reported(poller', i) # None <=> HeadsDiffer(poller')
               /\ Reported(poller', i) # None =>
                      Reported(poller', i)[1] = poller'.commit_count]_vars

\* C13 amended: a target is reported as changed if and only if the two heads
\* differ and rev-list --count returned 0; the count in the report is the
\* output of rev-list --count.
C13_ReportedIffHeadsDifferAndCounted ==
    [][\A i \in 1..Len(poll_targets) :
           CallEnds(i) =>
               /\ Reported(poller', i) # None <=>
                      (HeadsDiffer(poller') /\ poller'.commit_count # "")
               /\ Reported(poller', i) # None =>
                      Reported(poller', i)[1] = poller'.commit_count]_vars

\* A cycle has polled every target: the root and the second submodule are
\* reported, the first submodule is not.
C13_Witness ==
    /\ poller.pc = "notify"
    /\ Reported(poller, 1) # None
    /\ Reported(poller, 2) = None
    /\ Reported(poller, 3) # None

\* C10: every poll cycle ends by re-arming the fetch timer, whatever the git
\* commands did: when no cycle is in flight, the Timer self.fetch_timer refers
\* to is armed, or was cancelled by stop().
C10_CycleRearms == ~CycleInFlight => fetch_timer \in {"armed", "cancelled"}

\* ------------------------------------------------------------------------
\* The commit message: _create_squashed_commit_message.

\* The number of lines git status --porcelain prints.
MaxStatusLines == 2

\* The two-column status codes of the lines git status --porcelain prints.
StatusCodes == {<<"A", " ">>, <<"M", " ">>, <<" ", "M">>, <<"D", " ">>,
                <<" ", "D">>, <<"R", " ">>, <<"?", "?">>}

\* A porcelain line: the code, a blank and the file's name.
StatusLine(code) == code \o <<" ", "f">>

\* What git status --porcelain may print: stdout, one element per line.
StatusOutputs ==
    UNION {[1..n -> {StatusLine(c) : c \in StatusCodes}] : n \in 0..MaxStatusLines}

\* str.startswith
startswith(s, prefix) ==
    /\ Len(prefix) <= Len(s)
    /\ SubSeq(s, 1, Len(prefix)) = prefix

\* sum(1 for line in status_lines if line.startswith(p) [or ...])
CountLines(status_lines, prefixes) ==
    Cardinality({i \in 1..Len(status_lines) :
                     \E p \in prefixes : startswith(status_lines[i], p)})

\* f"{verb} {n} file{'s' if n != 1 else ''}"
Part(verb, n) ==
    verb \o " " \o ToString(n) \o " file" \o (IF n # 1 THEN "s" ELSE "")

RECURSIVE JoinStr(_, _)
\* sep.join(parts)
JoinStr(sep, parts) ==
    IF parts = <<>> THEN ""
    ELSE IF Len(parts) = 1 THEN parts[1]
    ELSE parts[1] \o sep \o JoinStr(sep, Tail(parts))

\* _create_squashed_commit_message, lines 293-331: git status ended with
\* `out` and printed the lines `stdout`.  changed_files is not read.
create_squashed_commit_message(out, stdout) ==
    IF out = "raise" THEN "Auto-commit: updated files"
    ELSE IF out # "ok" THEN "Update files"
    ELSE LET status_lines ==
                 SelectSeq([i \in 1..Len(stdout) |-> Strip(stdout[i])],
                           LAMBDA line : line # <<>>)
             created == CountLines(status_lines, {<<"A", " ">>})
             modified == CountLines(status_lines, {<<"M", " ">>, <<" ", "M">>})
             deleted == CountLines(status_lines, {<<"D", " ">>})
             renamed == CountLines(status_lines, {<<"R", " ">>})
             parts ==
                 (IF created > 0 THEN <<Part("created", created)>> ELSE <<>>)
                 \o (IF modified > 0 THEN <<Part("modified", modified)>> ELSE <<>>)
                 \o (IF deleted > 0 THEN <<Part("deleted", deleted)>> ELSE <<>>)
                 \o (IF renamed > 0 THEN <<Part("renamed", renamed)>> ELSE <<>>)
         IN  IF status_lines = <<>> THEN "Update files"
             ELSE IF parts # <<>> THEN "Auto-commit: " \o JoinStr(", ", parts)
             ELSE "Auto-commit: updated files"

\* The git command a worker runs at its pc, and its working directory.
git_command(w) ==
    CASE w.pc = "stage" -> <<"add .", w.dir>>
      [] w.pc = "status" -> <<"status --porcelain", w.dir>>
      [] w.pc = "commit" -> <<"commit", w.dir>>
      [] w.pc = "push" -> <<"push", w.dir>>
      [] w.pc = "upd_stage" -> <<"add rel_path", repo_dir>>
      [] w.pc = "upd_diff" -> <<"diff --cached --quiet", repo_dir>>
      [] w.pc = "upd_commit" -> <<"commit", repo_dir>>
      [] w.pc = "upd_push" -> <<"push", repo_dir>>
      [] w.pc = "ex_status" -> <<"status --porcelain", w.dir>>
      [] w.pc = "ex_add" -> <<"add .", w.dir>>
      [] w.pc = "ex_commit" -> <<"commit", w.dir>>
      [] w.pc = "ex_push" -> <<"push", w.dir>>

\* The stdout of a git command of the commit sequence that the code reads:
\* the lines of a successful git status --porcelain.
StdoutOf(pc, out) ==
    IF pc = "status" /\ out = "ok" THEN StatusOutputs ELSE {<<>>}


\* ------------------------------------------------------------------------
\* Startup: __init__ runs _commit_existing_changes, then start_fetch_timer.

\* The directories _commit_existing_changes checks, in its order (lines
\* 457-461).
startup_targets == <<repo_dir>> \o submodules

\* git status --porcelain may also end with return code 0 and no output.
StatusOutcomes == Outcomes \cup {"clean"}

\* _commit_existing_in_repo checks the directory startup_targets[i].
StartJob(i) == [NoJob EXCEPT !.pc = "ex_status", !.idx = i,
                             !.dir = startup_targets[i]]

\* The repo_name _commit_existing_changes passes (lines 457 and 461).
repo_name(dir) ==
    IF dir = repo_dir THEN "main repo"
    ELSE "submodule " \o JoinStr("", name_of(dir))

\* _commit_existing_in_repo, lines 463-496, one git command at a time.
commit_existing_in_repo(w, cfg, out) ==
    CASE w.pc = "ex_status" ->
             IF out = "ok" THEN [w EXCEPT !.pc = "ex_add"]
             ELSE Leave(w, out = "raise")
      [] w.pc = "ex_add" ->
             IF out = "ok"
             THEN [w EXCEPT !.pc = "ex_commit",
                            !.message = "Auto-commit existing changes in "
                                        \o repo_name(w.dir)]
             ELSE Leave(w, out = "raise")
      [] w.pc = "ex_commit" ->
             IF out = "ok"
             THEN IF cfg.auto_push
                  THEN [Notified(w, cfg) EXCEPT !.pc = "ex_push",
                                                !.committed = TRUE]
                  ELSE [Leave(Notified(w, cfg), FALSE) EXCEPT !.committed = TRUE]
             ELSE Leave(w, out = "raise")
      [] w.pc = "ex_push" ->
             IF out = "raise" THEN Leave(w, TRUE)
             ELSE IF w.dir = repo_dir THEN Leave(w, FALSE)
             ELSE [w EXCEPT !.pc = "upd_stage"]
      [] OTHER -> commit_submodule_update(w, cfg, out)

JobPcs == {"ex_status", "ex_add", "ex_commit", "ex_push",
           "upd_stage", "upd_diff", "upd_commit", "upd_push"}

\* The stdout of a git command of _commit_existing_in_repo that the code
\* reads: the lines of git status --porcelain, of which there is at least
\* one unless the directory is clean.
ExistingStdoutOf(pc, out) ==
    IF pc = "ex_status" /\ out = "ok" THEN StatusOutputs \ {<<>>} ELSE {<<>>}

\* The main thread runs the next git command of _commit_existing_in_repo.
\* status_result and commit_message are dead once the commit command has
\* run.
commit_existing_step(out, stdout) ==
    /\ main = "init"
    /\ job.pc \in JobPcs
    /\ out = "clean" => job.pc = "ex_status"
    /\ stdout \in ExistingStdoutOf(job.pc, out)
    /\ LET next == commit_existing_in_repo(job, config, out)
       IN  job' = [next EXCEPT
               !.calls = Append(job.calls, <<git_command(job), out>>),
               !.status_result =
                   IF job.pc = "ex_status" THEN <<out, stdout>>
                   ELSE IF job.pc = "ex_add" THEN @ ELSE <<>>,
               !.message = IF job.pc = "ex_add" THEN @ ELSE ""]
    /\ UNCHANGED <<gitignore_files, config, probe, submodules, launch,
                   pending_commits, commit_timers, timer_lock,
                   gitignore_patterns, timers, handler, main, fetch_timer,
                   poller, since>>

\* _commit_existing_in_repo is over.  An exception leaves __init__ and
\* run_watcher, which catches only KeyboardInterrupt; otherwise
\* _commit_existing_changes goes on to the next directory, and after the last
\* one __init__ starts the fetch timer (line 46) and run_watcher starts the
\* observer (lines 559-561).
commit_existing_next ==
    /\ main = "init"
    /\ job.pc = "exit"
    /\ IF job.exc
       THEN /\ main' = "crashed"
            /\ job' = NoJob
            /\ UNCHANGED fetch_timer
       ELSE IF job.idx < Len(startup_targets)
       THEN /\ job' = StartJob(job.idx + 1)
            /\ UNCHANGED <<main, fetch_timer>>
       ELSE /\ job' = NoJob
            /\ main' = "running"
            /\ fetch_timer' = "armed"
    /\ UNCHANGED <<gitignore_files, config, probe, submodules, launch,
                   pending_commits, commit_timers, timer_lock,
                   gitignore_patterns, timers, handler, poller, since>>

NextStartup ==
    \/ \E out \in StatusOutcomes :
           \E stdout \in ExistingStdoutOf(job.pc, out) :
               commit_existing_step(out, stdout)
    \/ commit_existing_next

\* __init__ at line 45: the fields are set, no Timer exists yet.
InitStartup ==
    /\ config \in Configs
    /\ Fresh
    /\ launch = Launched
    /\ submodules = Discovered
    /\ main = "init"
    /\ fetch_timer = "none"
    /\ job = StartJob(1)

SpecStartup == InitStartup /\ [][NextStartup]_vars

\* ------------------------------------------------------------------------
\* Claims about the commit sequences.

\* C9: every successful commit in a submodule is followed by exactly one
\* attempt to stage the submodule's path in the root.
C9_SubmoduleCommitStagesRoot ==
    (job.pc = "exit" /\ in_submodules(job.dir) /\ job.committed)
        => job.staged = 1

\* ------------------------------------------------------------------------
\* One commit attempt, one git command at a time: from the firing of a
\* target's Timer to the end of _execute_delayed_commit, while the observer
\* goes on delivering events.

\* _execute_delayed_commit, lines 192-195.
commit_squashed(w, cfg, out) ==
    IF in_submodules(w.dir) THEN commit_squashed_submodule(w, cfg, out)
    ELSE commit_squashed_main_repo(w, cfg, out)

CommitPcs == {"stage", "status", "commit", "push",
              "upd_stage", "upd_diff", "upd_commit", "upd_push"}

\* The Timer thread runs the next git command of its commit sequence.  The
\* status command is the one of _create_squashed_commit_message, whose result
\* is the commit's message; both are dead once the commit command has run.
timer_commit_step(t, out, stdout) ==
    /\ timers[t].pc \in CommitPcs
    /\ stdout \in StdoutOf(timers[t].pc, out)
    /\ LET w == timers[t]
           next == commit_squashed(w, config, out)
       IN  timers' = [timers EXCEPT ![t] = [next EXCEPT
               !.calls = Append(w.calls, <<git_command(w), out>>),
               !.status_result =
                   IF w.pc = "status" THEN <<out, stdout>> ELSE <<>>,
               !.message =
                   IF w.pc = "status"
                   THEN create_squashed_commit_message(out, stdout) ELSE ""]]
    /\ UNCHANGED <<gitignore_files, config, probe, submodules, launch,
                   pending_commits, commit_timers, timer_lock,
                   gitignore_patterns, handler, main, fetch_timer, poller, job,
                   since>>

\* _execute_delayed_commit is over (it returned, or an exception left it):
\* Timer.run ends and the thread with it.
timer_exit(t) ==
    /\ timers[t].pc = "exit"
    /\ timers' = [timers EXCEPT ![t] = NoTimer]
    /\ UNCHANGED <<gitignore_files, config, probe, submodules, launch,
                   pending_commits, commit_timers, timer_lock,
                   gitignore_patterns, handler, main, fetch_timer, poller, job,
                   since>>

NextCommit ==
    \/ \E p \in Paths, is_directory \in BOOLEAN : on_event(p, is_directory)
    \/ handle_file_change
    \/ handle_file_change_lock
    \/ handle_file_change_body
    \/ \E t \in TimerIds : execute_delayed_commit_lock(t)
    \/ \E t \in TimerIds : execute_delayed_commit(t)
    \/ \E t \in TimerIds, out \in Outcomes :
           \E stdout \in StdoutOf(timers[t].pc, out) :
               timer_commit_step(t, out, stdout)
    \/ \E t \in TimerIds : timer_exit(t)

\* The engine at the moment the Timer of a target's first accepted event has
\* fired: the path is pending, the Timer is about to enter
\* _execute_delayed_commit.  (notify_on_remote_changes is read by the poller
\* only.)
InitCommit ==
    /\ config \in {c \in Configs : c.notify_on_remote_changes}
    /\ gitignore_files = GitignoreFiles
    /\ launch = Launched
    /\ submodules = Discovered
    /\ \E p \in Paths :
           LET r == should_ignore(all_patterns, p, config.respect_gitignore,
                                  EmptyMap, gitignore_files)
               d == target_dir_of(p)
           IN  /\ ~r.ignored
               /\ pending_commits = (d :> {p})
               /\ commit_timers = (d :> 1)
               /\ timers = [t \in TimerIds |->
                      IF t = 1 THEN [NoTimer EXCEPT !.pc = "fired", !.dir = d]
                      ELSE NoTimer]
               /\ gitignore_patterns = r.cache
    /\ timer_lock = Free
    /\ handler = IdleHandler
    /\ poller = IdlePoller
    /\ probe = NoProbe
    /\ since = [d \in Dirs |-> CommitDelay]
    /\ main = "running"
    /\ fetch_timer = "armed"
    /\ job = NoJob

SpecCommit == InitCommit /\ [][NextCommit]_vars

\* ------------------------------------------------------------------------
\* Claims about one commit attempt.

\* The worker ran the git command cmd; it ran it and the command failed (a
\* non-zero return code, or the runner raised).
HasCall(w, cmd) == \E i \in 1..Len(w.calls) : w.calls[i][1] = cmd
FailedCall(w, cmd) ==
    \E i \in 1..Len(w.calls) : w.calls[i][1] = cmd /\ w.calls[i][2] # "ok"

\* C11: a failing git command, the runner raising included, is absorbed: no
\* exception leaves _execute_delayed_commit.
C11_NoExceptionEscapes ==
    \A t \in TimerIds : timers[t].pc = "exit" => ~timers[t].exc

\* Within one attempt no git command is run twice; after a failed stage no
\* commit is run; after a failed commit there is no push, no notification and
\* no staging of the submodule in the root.
NoRetry(w) ==
    /\ \A i, j \in 1..Len(w.calls) : w.calls[i][1] = w.calls[j][1] => i = j
    /\ FailedCall(w, <<"add .", w.dir>>) => ~HasCall(w, <<"commit", w.dir>>)
    /\ FailedCall(w, <<"commit", w.dir>>) =>
           /\ ~HasCall(w, <<"push", w.dir>>)
           /\ ~HasCall(w, <<"add rel_path", repo_dir>>)
           /\ w.notified = 0
           /\ w.staged = 0
           /\ ~w.committed

AttemptsNoRetry == \A t \in TimerIds : NoRetry(timers[t])

\* C12: there is no retry within a commit attempt, and no step of the attempt
\* puts the pending set back or arms a timer: the steps of a Timer thread
\* that runs git commands leave pending_commits, commit_timers and every
\* other Timer as they are.
C12_NoRetry ==
    /\ []AttemptsNoRetry
    /\ [][\A t \in TimerIds :
              (timers[t].pc \in CommitPcs /\ timers'[t] # timers[t]) =>
                  /\ UNCHANGED <<pending_commits, commit_timers>>
                  /\ \A u \in TimerIds \ {t} : timers'[u] = timers[u]]_vars

\* An attempt is over whose commit command failed: the target has no pending
\* set and no timer.
C12_Witness ==
    \E t \in TimerIds :
        /\ timers[t].pc = "exit"
        /\ FailedCall(timers[t], <<"commit", timers[t].dir>>)
        /\ timers[t].dir \notin DOMAIN pending_commits
        /\ timers[t].dir \notin DOMAIN commit_timers
        /\ ArmedTimers(timers[t].dir) = {}

\* The number of lines of a porcelain output whose two-column status code is
\* one of `codes`.
CodeCount(stdout, codes) ==
    Cardinality({i \in 1..Len(stdout) : SubSeq(stdout[i], 1, 2) \in codes})

\* The message the commit-message rule gives for a porcelain output: the
\* categories with a non-zero count, in the order created, modified, deleted,
\* renamed.
RuleMessage(stdout) ==
    LET created == CodeCount(stdout, {<<"A", " ">>})
        modified == CodeCount(stdout, {<<"M", " ">>, <<" ", "M">>})
        deleted == CodeCount(stdout, {<<"D", " ">>})
        renamed == CodeCount(stdout, {<<"R", " ">>})
    IN  "Auto-commit: " \o JoinStr(", ",
            (IF created > 0 THEN <<Part("created", created)>> ELSE <<>>)
            \o (IF modified > 0 THEN <<Part("modified", modified)>> ELSE <<>>)
            \o (IF deleted > 0 THEN <<Part("deleted", deleted)>> ELSE <<>>)
            \o (IF renamed > 0 THEN <<Part("renamed", renamed)>> ELSE <<>>))

\* No line of the output carries a code of the four categories.
Unparseable(stdout) ==
    CodeCount(stdout, {<<"A", " ">>, <<"M", " ">>, <<" ", "M">>,
                       <<"D", " ">>, <<"R", " ">>}) = 0

\* C14: when the status is empty, or was not obtained, or has no line the
\* rule parses, the message is exactly "Auto-commit: updated files".
C14_FallbackMessage ==
    \A t \in TimerIds :
        (/\ timers[t].pc = "commit"
         /\ \/ timers[t].status_result[1] # "ok"
            \/ Unparseable(timers[t].status_result[2]))
        => timers[t].message = "Auto-commit: updated files"

\* C15: for a status with lines the rule parses, the message is the rule's
\* function of the status lines alone.
C15_MessageFromStatus ==
    \A t \in TimerIds :
        (/\ timers[t].pc = "commit"
         /\ timers[t].status_result[1] = "ok"
         /\ ~Unparseable(timers[t].status_result[2]))
        => timers[t].message = RuleMessage(timers[t].status_result[2])

\* ------------------------------------------------------------------------
\* The test-ignore command (cli.py lines 275-301): it builds an IgnoreManager
\* from the configuration and calls test_pattern on one path.

\* Patterns of the ignore sources.
PatBuildDir == <<"b", "u", "i", "l", "d", "/">>
PatTxt == <<"*", ".", "t", "x", "t">>
PatXTxt == <<"x", ".", "t", "x", "t">>

\* The paths the command is asked about.
PathBuildOutput == << <<"w">>, <<"b", "u", "i", "l", "d">>, <<"o", "u", "t", "p", "u", "t", ".", "t", "x", "t">> >>
PathSrcBuildX == << <<"w">>, <<"s", "r", "c">>, <<"b", "u", "i", "l", "d">>, <<"x", ".", "t", "x", "t">> >>
PathMyBuildFile == << <<"w">>, <<"m", "y", "_", "b", "u", "i", "l", "d">>, <<"f", "i", "l", "e", ".", "t", "x", "t">> >>
PathSibling == << <<"w", "w">>, <<"a">> >>
ProbePaths == {PathBuildOutput, PathSrcBuildX, PathMyBuildFile, PathSibling,
               FileG, FileA, FileO}

\* The IgnoreManagers the command builds: the lines of the global ignore
\* file, the configuration's ignore_patterns, the lines of its ignore_files,
\* and respect_gitignore.
ProbeManagers ==
    [global_patterns : {<<>>, <<PatTxt>>},
     config_patterns : {<<>>, <<PatBuildDir>>, <<PatBuildDir, PatTxt>>},
     additional_patterns : {<<>>, <<PatXTxt>>},
     respect_gitignore : BOOLEAN]

\* test_pattern with the loops of lines 189-206 left at the first label.
test_pattern_first_only(im, file_path) ==
    LET patterns == im.global_patterns \o im.config_patterns
                        \o im.additional_patterns
        r == should_ignore(patterns, file_path, im.respect_gitignore, EmptyMap,
                           gitignore_files)
        rel_path_str == Join(relative_to(file_path, watch_dir))
        Labels(source, pats) ==
            SelectSeq([i \in 1..Len(pats) |-> <<source, pats[i]>>],
                      LAMBDA l : matches_pattern(rel_path_str, l[2]))
        all == Labels("global", im.global_patterns)
                   \o Labels("config", im.config_patterns)
                   \o Labels("additional", im.additional_patterns)
                   \o (IF /\ im.respect_gitignore
                          /\ matches_gitignore(file_path, r.cache,
                                               gitignore_files).ignored
                       THEN << <<"gitignore", <<>>>> >> ELSE <<>>)
    IN  IF ~r.ignored THEN [ignored |-> FALSE, matched_by |-> <<>>]
        ELSE IF ~is_relative_to(file_path, watch_dir)
        THEN [ignored |-> TRUE,
              matched_by |-> << <<"outside watch directory", <<>>>> >>]
        ELSE [ignored |-> TRUE, matched_by |-> <<Head(all)>>]

\* test_pattern, ignore.py lines 172-211.  matched_by holds one
\* <<source, pattern>> per label, in the order the code appends them.
test_pattern(im, file_path) ==
    LET patterns == im.global_patterns \o im.config_patterns
                        \o im.additional_patterns
        r == should_ignore(patterns, file_path, im.respect_gitignore, EmptyMap,
                           gitignore_files)
        rel_path_str == Join(relative_to(file_path, watch_dir))
        Labels(source, pats) ==
            SelectSeq([i \in 1..Len(pats) |-> <<source, pats[i]>>],
                      LAMBDA l : matches_pattern(rel_path_str, l[2]))
    IN  IF ~r.ignored THEN [ignored |-> FALSE, matched_by |-> <<>>]
        ELSE IF ~is_relative_to(file_path, watch_dir)
        THEN [ignored |-> TRUE,
              matched_by |-> << <<"outside watch directory", <<>>>> >>]
        ELSE [ignored |-> TRUE,
              matched_by |->
                  Labels("global", im.global_patterns)
                  \o Labels("config", im.config_patterns)
                  \o Labels("additional", im.additional_patterns)
                  \o (IF /\ im.respect_gitignore
                         /\ matches_gitignore(file_path, r.cache,
                                               gitignore_files).ignored
                      THEN << <<"gitignore", <<>>>> >> ELSE <<>>)]

\* The IgnoreManager of the command.
ProbeManager ==
    [global_patterns |-> probe.global_patterns,
     config_patterns |-> probe.config_patterns,
     additional_patterns |-> probe.additional_patterns,
     respect_gitignore |-> probe.respect_gitignore]

\* cli.py line 291: result = ignore_manager.test_pattern(file_path)
test_ignore ==
    /\ probe.pc = "start"
    /\ probe' = [probe EXCEPT !.pc = "done",
                              !.result = test_pattern(ProbeManager, probe.file_path)]
    /\ UNCHANGED <<gitignore_files, config, submodules, launch,
                   pending_commits, commit_timers, timer_lock,
                   gitignore_patterns, timers, handler, main, fetch_timer,
                   poller, job, since>>

NextIgnore == test_ignore

\* The command's process: no engine is constructed in it.
InitIgnore ==
    /\ config = default_config
    /\ gitignore_files = GitignoreFiles
    /\ launch = NoLaunch
    /\ submodules = <<>>
    /\ pending_commits = EmptyMap
    /\ commit_timers = EmptyMap
    /\ timer_lock = Free
    /\ gitignore_patterns = EmptyMap
    /\ timers = [t \in TimerIds |-> NoTimer]
    /\ handler = IdleHandler
    /\ poller = IdlePoller
    /\ since = [d \in Dirs |-> CommitDelay]
    /\ main = "none"
    /\ fetch_timer = "none"
    /\ job = NoJob
    /\ \E im \in ProbeManagers, file_path \in ProbePaths :
           probe = [NoProbe EXCEPT
                        !.pc = "start",
                        !.global_patterns = im.global_patterns,
                        !.config_patterns = im.config_patterns,
                        !.additional_patterns = im.additional_patterns,
                        !.respect_gitignore = im.respect_gitignore,
                        !.file_path = file_path]

SpecIgnore == InitIgnore /\ [][NextIgnore]_vars

\* ------------------------------------------------------------------------
\* Claims about the ignore matcher.

\* The path of the command, relative to the watch root, by segment.
ProbeRel == relative_to(probe.file_path, watch_dir)

\* C16: a directory pattern matches a path when any segment of the path
\* matches the pattern: with build/ as the only pattern and no .gitignore
\* read, a path under the root is ignored exactly when one of its segments
\* matches build (build/output.txt and src/build/x.txt are, my_build/file.txt
\* is not).
C16_DirectoryPattern ==
    (/\ probe.pc = "done"
     /\ probe.global_patterns = <<>>
     /\ probe.config_patterns = <<PatBuildDir>>
     /\ probe.additional_patterns = <<>>
     /\ ~probe.respect_gitignore
     /\ is_relative_to(probe.file_path, watch_dir))
    => (probe.result.ignored <=>
            \E i \in 1..Len(ProbeRel) :
                fnmatch(ProbeRel[i], <<"b", "u", "i", "l", "d">>))

\* C17: a path that is not under the watch root is ignored, whatever the
\* patterns and respect_gitignore.
C17_OutsideRootIgnored ==
    (probe.pc = "done" /\ ~is_relative_to(probe.file_path, watch_dir))
        => probe.result.ignored

\* The command was asked about a path beside the root whose name begins with
\* the root's, with no pattern configured and respect_gitignore off.
C17_Witness ==
    /\ probe.pc = "done"
    /\ probe.file_path = PathSibling
    /\ probe.global_patterns = <<>>
    /\ probe.config_patterns = <<>>
    /\ probe.additional_patterns = <<>>
    /\ ~probe.respect_gitignore
    /\ probe.result.ignored

\* The sources that match the command's path.
SourceMatches(source) ==
    LET rel_path_str == Join(ProbeRel)
        Some(pats) == \E i \in 1..Len(pats) : matches_pattern(rel_path_str, pats[i])
        under == is_relative_to(probe.file_path, watch_dir)
    IN  CASE source = "outside watch directory" -> ~under
          [] source = "global" -> under /\ Some(probe.global_patterns)
          [] source = "config" -> under /\ Some(probe.config_patterns)
          [] source = "additional" -> under /\ Some(probe.additional_patterns)
          [] source = "gitignore" ->
                 /\ under
                 /\ probe.respect_gitignore
                 /\ matches_gitignore(probe.file_path, EmptyMap,
                                      gitignore_files).ignored

Sources == {"outside watch directory", "global", "config", "additional",
            "gitignore"}

\* C18: test_pattern's ignored flag is should_ignore's result, matched_by is
\* non-empty exactly when the flag is set, and matched_by has a label for
\* every source that matches the path.
C18_TestPatternAgrees ==
    probe.pc = "done" =>
        /\ probe.result.ignored =
               should_ignore(probe.global_patterns \o probe.config_patterns
                                 \o probe.additional_patterns,
                             probe.file_path, probe.respect_gitignore,
                             EmptyMap, gitignore_files).ignored
        /\ probe.result.matched_by # <<>> <=> probe.result.ignored
        /\ \A source \in Sources :
               SourceMatches(source) =>
                   \E k \in 1..Len(probe.result.matched_by) :
                       probe.result.matched_by[k][1] = source

\* The command was asked about src/build/x.txt, which the global file, the
\* configuration, the additional file and src/.gitignore all match.
C18_Witness ==
    /\ probe.pc = "done"
    /\ probe.file_path = PathSrcBuildX
    /\ \A source \in Sources \ {"outside watch directory"} : SourceMatches(source)
    /\ Len(probe.result.matched_by) = 4

\* ------------------------------------------------------------------------
\* The launch: run_watcher from its validation to the running observer.

\* validate_config without the checks of the timing values (lines 220-227).
validate_config_no_timing(l) ==
    LET errors ==
            (IF ~l.watch_exists THEN 1 ELSE 0)
            + (IF ~l.repo_exists \/ ~l.is_git THEN 1 ELSE 0)
    IN  [valid |-> errors = 0, errors |-> errors]

\* validate_config, config.py lines 182-229: the number of errors it finds.
validate_config(l) ==
    LET errors ==
            (IF ~l.watch_exists THEN 1 ELSE 0)
            + (IF ~l.repo_exists \/ ~l.is_git THEN 1 ELSE 0)
            + (IF l.commit_delay < 0 THEN 1 ELSE 0)
            + (IF l.fetch_interval < 0 THEN 1 ELSE 0)
    IN  [valid |-> errors = 0, errors |-> errors]

\* run_watcher, lines 531-551: validate_config, then the checks of the watch
\* directory and of repo_directory/.git; each failure returns.
run_watcher_validate ==
    /\ main = "validate"
    /\ LET validation == validate_config(launch)
       IN  /\ launch' = [launch EXCEPT !.validation = validation]
           /\ main' = IF /\ validation.valid
                         /\ launch.watch_exists
                         /\ launch.is_git
                      THEN "construct" ELSE "returned"
    /\ UNCHANGED <<gitignore_files, config, probe, submodules, pending_commits,
                   commit_timers, timer_lock, gitignore_patterns, timers,
                   handler, fetch_timer, poller, job, since>>

\* __init__, lines 24-45: self.submodules is the result of _get_submodules,
\* whose git command ends with `out`; the maps and the lock are created and
\* _commit_existing_changes begins with the root.
GitCommitHandler_init(out) ==
    /\ main = "construct"
    /\ submodules' = get_submodules(out, sm_path)
    /\ launch' = [launch EXCEPT !.result = out]
    /\ main' = "init"
    /\ job' = [NoJob EXCEPT !.pc = "ex_status", !.idx = 1, !.dir = repo_dir]
    /\ UNCHANGED <<gitignore_files, config, probe, pending_commits,
                   commit_timers, timer_lock, gitignore_patterns, timers,
                   handler, fetch_timer, poller, since>>

NextLaunch ==
    \/ run_watcher_validate
    \/ \E out \in Outcomes : GitCommitHandler_init(out)
    \/ \E out \in StatusOutcomes :
           \E stdout \in ExistingStdoutOf(job.pc, out) :
               commit_existing_step(out, stdout)
    \/ commit_existing_next
    \/ \E p \in Paths, is_directory \in BOOLEAN : on_event(p, is_directory)
    \/ handle_file_change
    \/ handle_file_change_lock
    \/ handle_file_change_body

\* What run_watcher may find: a directory that does not exist holds no .git.
Launches ==
    {l \in [watch_exists : BOOLEAN, repo_exists : BOOLEAN, is_git : BOOLEAN,
            commit_delay : {-1, CommitDelay},
            fetch_interval : {-1, CommitDelay},
            validation : {<<>>}, result : {""}] : l.is_git => l.repo_exists}

\* run_watcher at line 531: no engine exists.  (notify_on_remote_changes is
\* read by the poller only.)
InitLaunch ==
    /\ config \in {c \in Configs : c.notify_on_remote_changes}
    /\ launch \in Launches
    /\ submodules = <<>>
    /\ Fresh
    /\ main = "validate"
    /\ fetch_timer = "none"
    /\ job = NoJob

SpecLaunch == InitLaunch /\ [][NextLaunch]_vars

\* ------------------------------------------------------------------------
\* Claims about the launch.

\* No event has reached the handler and no debounce timer exists.
NothingWatched ==
    /\ handler = IdleHandler
    /\ pending_commits = EmptyMap
    /\ commit_timers = EmptyMap
    /\ \A t \in TimerIds : timers[t] = NoTimer

NothingWatchedBeforeStart == main \notin Watching => NothingWatched

\* C21: the startup commits come before the watching and in a fixed order:
\* until the startup checks are over no event has reached the handler and no
\* debounce timer exists; the first directory checked is the root, each
\* further one is the next submodule in discovery order, and the watching
\* begins only after the last one.
C21_StartupBeforeWatching ==
    /\ []NothingWatchedBeforeStart
    /\ [][/\ (job' # job /\ job'.pc = "ex_status") =>
                 /\ job'.idx = IF job.pc = "none" THEN 1 ELSE job.idx + 1
                 /\ job'.dir = (<<repo_dir>> \o submodules')[job'.idx]
          /\ (main # "running" /\ main' = "running") =>
                 /\ job.pc = "exit"
                 /\ job.idx = 1 + Len(submodules)]_vars

\* The startup checks are over, both submodules included, and the handler is
\* adding the path of an event to a pending set.
C21_Witness ==
    /\ main = "running"
    /\ Len(submodules) = 2
    /\ handler.pc = "body"

\* ------------------------------------------------------------------------
\* Claims about the startup commits.

\* C22: at startup, a successful commit in a submodule is followed by the
\* follow-up in the root, whatever auto_push is: when the check of a
\* submodule is over, its commit succeeded and no exception ended it, the
\* submodule's path was staged in the root.
C22_StartupFollowUp ==
    (/\ job.pc = "exit"
     /\ in_submodules(job.dir)
     /\ job.committed
     /\ ~job.exc)
        => job.staged >= 1

\* C23: a startup commit goes through the path of a timer-triggered commit:
\* when the main thread is about to commit a directory's pre-existing
\* changes, the message is the one synthesized from the directory's
\* porcelain status, and a successful commit is notified exactly when the
\* timer-triggered commit of the same directory is.
C23_StartupSamePath ==
    job.pc = "ex_commit" =>
        /\ job.message =
               create_squashed_commit_message(job.status_result[1],
                                              job.status_result[2])
        /\ commit_existing_in_repo(job, config, "ok").notified =
               commit_squashed([job EXCEPT !.pc = "commit"], config,
                               "ok").notified

\* The number of commit commands the worker ran in the root that succeeded.
OkRootCommits(w) ==
    Cardinality({i \in 1..Len(w.calls) :
                     w.calls[i] = << <<"commit", repo_dir>>, "ok" >>})

\* The notifications the worker may have sent: none unless both settings
\* are on, and then one per successful commit in the root.
NotifiedForRootOnly(w) ==
    w.notified <= IF config.enable_notifications /\ config.notify_on_commit
                  THEN OkRootCommits(w) ELSE 0

\* C24: a commit notification is sent only for a commit in the root, only
\* after that commit succeeded and only when enable_notifications and
\* notify_on_commit are both on; a submodule's own commit sends none, at
\* startup or from a timer.
C24_NotifyOnlyRootCommit ==
    /\ NotifiedForRootOnly(job)
    /\ \A t \in TimerIds : NotifiedForRootOnly(timers[t])

\* Every push the worker ran comes directly after a successful commit in the
\* same directory, with auto_push on, and is the only push of that directory.
PushOnlyAfterCommit(w) ==
    \A i \in 1..Len(w.calls) :
        w.calls[i][1][1] = "push" =>
            /\ config.auto_push
            /\ i > 1
            /\ w.calls[i - 1] = << <<"commit", w.calls[i][1][2]>>, "ok" >>
            /\ \A j \in 1..Len(w.calls) :
                   w.calls[j][1] = w.calls[i][1] => j = i

PushesOnlyAfterCommit ==
    /\ PushOnlyAfterCommit(job)
    /\ \A t \in TimerIds : PushOnlyAfterCommit(timers[t])

\* C25: a directory is pushed only directly after a successful commit in
\* that directory and only when auto_push is on (never when it is off), the
\* submodule's commit and the root's follow-up commit each on its own; the
\* push, whatever its outcome, leaves the commit made and is not run again.
C25_PushAfterCommit ==
    /\ []PushesOnlyAfterCommit
    /\ [][\A t \in TimerIds :
              (timers[t].pc \in {"push", "upd_push"} /\ timers'[t] # timers[t])
                  => /\ timers'[t].committed = timers[t].committed
                     /\ timers'[t].pc \in {"upd_stage", "exit"}]_vars

\* A Timer thread's commit sequence is over: the submodule's commit was
\* pushed and the push failed, the follow-up commit in the root was pushed
\* too.
C25_Witness ==
    \E t \in TimerIds :
        /\ timers[t].pc = "exit"
        /\ in_submodules(timers[t].dir)
        /\ timers[t].committed
        /\ FailedCall(timers[t], <<"push", timers[t].dir>>)
        /\ HasCall(timers[t], <<"push", repo_dir>>)

\* ------------------------------------------------------------------------
\* Claims about the poll cycle.

\* The targets that reported changes in the cycle.
Changed(p) == {i \in 1..Len(p.returned) : p.returned[i] # None}

\* C26: in a poll cycle, when enable_notifications and
\* notify_on_remote_changes are both on, one notification is sent per target
\* that reported changes, so that the number of notifications is the number
\* of changed targets; otherwise none is sent.
C26_OneNotificationPerChangedTarget ==
    poller.pc \in {"rearm", "start"} =>
        Len(poller.sent) =
            IF config.enable_notifications /\ config.notify_on_remote_changes
            THEN Cardinality(Changed(poller)) ELSE 0

\* The fetch timer is armed only between two cycles.
ArmedOnlyBetweenCycles == fetch_timer = "armed" => ~CycleInFlight

\* C27: one fetch timer, one poll cycle at a time: while a cycle is in
\* flight the fetch timer is not armed, so no second cycle begins; within a
\* cycle the targets are polled one after another, the root first and then
\* the submodules in list order; no step of the poller changes timer_lock.
C27_OneCycleNoLock ==
    /\ []ArmedOnlyBetweenCycles
    /\ [][/\ (poller'.pc \in PollPcs /\ poller'.idx # poller.idx) =>
                 /\ poller'.idx = IF poller.pc = "wait" THEN 1
                                  ELSE poller.idx + 1
                 /\ poller'.idx <= Len(poll_targets)
                 /\ Len(poller'.returned) = poller'.idx - 1
          /\ poller' # poller => timer_lock' = timer_lock]_vars

\* A cycle is polling its last target while stop() holds timer_lock.
C27_Witness ==
    /\ poller.pc \in PollPcs
    /\ poller.idx = Len(poll_targets)
    /\ fetch_timer = "fired"
    /\ timer_lock = MainThread

\* ------------------------------------------------------------------------
\* Claims about the classification of events.

\* The submodule directories that are a prefix of the path.
Above(path) ==
    {d \in {submodules[i] : i \in 1..Len(submodules)} : is_relative_to(path, d)}

\* The most specific target of the path: the deepest submodule directory
\* above it, the root when there is none.
MostSpecific(path) ==
    IF Above(path) = {} THEN repo_dir
    ELSE CHOOSE d \in Above(path) : \A e \in Above(path) : Len(e) <= Len(d)

BucketIsMostSpecific ==
    handler.pc \in {"lock", "body"} => handler.dir = MostSpecific(handler.path)

Invalid(l) ==
    \/ ~l.watch_exists
    \/ ~l.repo_exists
    \/ ~l.is_git
    \/ l.commit_delay < 0
    \/ l.fetch_interval < 0

\* C29: when the validation fails, run_watcher returns before the engine
\* is constructed: no git command has run (neither the discovery of the
\* submodules nor a startup commit), no debounce or fetch timer exists and
\* no event reaches a handler.
C29_InvalidConfigNothingStarts ==
    Invalid(launch) =>
        /\ main \in {"validate", "returned"}
        /\ launch.result = ""
        /\ submodules = <<>>
        /\ job = NoJob
        /\ fetch_timer = "none"
        /\ poller = IdlePoller
        /\ NothingWatched

\* run_watcher returned for a configuration whose only fault is a negative
\* commit_delay.
C29_Witness ==
    /\ main = "returned"
    /\ launch.commit_delay < 0
    /\ launch.fetch_interval >= 0
    /\ launch.watch_exists
    /\ launch.is_git
    /\ ~launch.validation.valid

\* The git command of _get_submodules returned non-zero, or the runner
\* raised.
DiscoveryFailed == launch.result \in {"fail", "raise"}

\* After a failed discovery the root is the only target.
RootOnlyAfterFailedDiscovery ==
    DiscoveryFailed =>
        /\ submodules = <<>>
        /\ job.pc # "none" => (job.idx = 1 /\ job.dir = repo_dir)
        /\ handler.pc \in {"lock", "body"} => handler.dir = repo_dir
        /\ DOMAIN pending_commits \subseteq {repo_dir}
        /\ DOMAIN commit_timers \subseteq {repo_dir}

\* C30: when the git command that enumerates the submodules fails, the
\* constructor goes on to the startup check of the root with an empty
\* submodule list, the root is the only directory checked, and every later
\* event is bucketed under the root.
C30_FailedDiscoveryRootOnly ==
    /\ []RootOnlyAfterFailedDiscovery
    /\ [][(main = "construct" /\ main' # main) =>
              /\ main' = "init"
              /\ job'.pc = "ex_status"
              /\ job'.dir = repo_dir]_vars

\* After a failed discovery the observer runs, and the handler is adding a
\* path that lies in the submodule s to the root's pending set.
C30_Witness ==
    /\ DiscoveryFailed
    /\ main = "running"
    /\ handler.pc = "body"
    /\ is_relative_to(handler.path, Discovered[1])
    /\ handler.dir = repo_dir

\* ------------------------------------------------------------------------
\* The event handlers, one event at a time: the observer thread calls
\* on_created, on_modified, on_deleted or on_moved with the event.

EventKinds == {"created", "modified", "deleted", "moved"}

\* The observer thread takes the next event from its queue and dispatches it
\* (from observer.start() until observer.stop()).  dest_path is the moved
\* event's.
dispatch(kind, is_directory, src_path, dest_path) ==
    /\ handler.pc = "idle"
    /\ main \in Watching
    /\ \E t \in TimerIds : FreeSlot(t)
    /\ kind # "moved" => dest_path = src_path
    /\ handler' = [IdleHandler EXCEPT
           !.pc = "event", !.kind = kind, !.is_directory = is_directory,
           !.path = src_path,
           !.dest_path = IF kind = "moved" THEN dest_path ELSE <<>>]
    /\ UNCHANGED <<gitignore_files, config, probe, submodules, launch,
                   pending_commits, commit_timers, timer_lock,
                   gitignore_patterns, timers, main, fetch_timer, poller, job,
                   since>>

\* on_modified, lines 116-120: a directory event returns; otherwise
\* _handle_file_change(event.src_path, "modified") is called.
on_modified(h) ==
    IF h.is_directory THEN IdleHandler ELSE [h EXCEPT !.pc = "check"]

\* on_created, lines 122-126.
on_created(h) ==
    IF h.is_directory THEN IdleHandler ELSE [h EXCEPT !.pc = "check"]

\* on_deleted, lines 128-132.
on_deleted(h) ==
    IF h.is_directory THEN IdleHandler ELSE [h EXCEPT !.pc = "check"]

\* on_moved without the test of line 136.
on_moved_no_directory_test(h) ==
    [h EXCEPT !.pc = "check", !.path = h.dest_path]

\* on_moved, lines 134-139: a directory event returns; otherwise
\* _handle_file_change(event.dest_path, "moved") is called.
on_moved(h) ==
    IF h.is_directory THEN IdleHandler
    ELSE [h EXCEPT !.pc = "check", !.path = h.dest_path]

\* The handler method of the event's kind runs.
on_event_kind(kind) ==
    /\ handler.pc = "event"
    /\ handler.kind = kind
    /\ handler' = CASE kind = "modified" -> on_modified(handler)
                     [] kind = "created" -> on_created(handler)
                     [] kind = "deleted" -> on_deleted(handler)
                     [] kind = "moved" -> on_moved(handler)
    /\ UNCHANGED <<gitignore_files, config, probe, submodules, launch,
                   pending_commits, commit_timers, timer_lock,
                   gitignore_patterns, timers, main, fetch_timer, poller, job,
                   since>>

NextEvents ==
    \/ \E kind \in EventKinds, is_directory \in BOOLEAN,
          src_path \in Paths, dest_path \in Paths :
           dispatch(kind, is_directory, src_path, dest_path)
    \/ \E kind \in EventKinds : on_event_kind(kind)
    \/ handle_file_change
    \/ handle_file_change_lock
    \/ handle_file_change_body

SpecEvents == Init /\ [][NextEvents]_vars

\* ------------------------------------------------------------------------
\* Claims about the event handlers.

\* C31: a directory event of any kind leaves the pending map and the timer
\* map unchanged and triggers no ignore evaluation and no git command: its
\* handler returns to the observer without a call of _handle_file_change,
\* and the maps, the Timers and the .gitignore cache are as before.
C31_DirectoryEventNoEffect ==
    [][(handler.pc = "event" /\ handler.is_directory /\ handler' # handler)
           => /\ handler' = IdleHandler
              /\ UNCHANGED <<pending_commits, commit_timers, timers,
                             gitignore_patterns, timer_lock>>]_vars

\* A moved-directory event is with the handler while a path is pending.
C31_Witness ==
    /\ handler.pc = "event"
    /\ handler.is_directory
    /\ handler.kind = "moved"
    /\ pending_commits # EmptyMap

\* ------------------------------------------------------------------------
\* An IgnoreManager in a running process: should_ignore is called for one
\* path after another while the .gitignore files on disk are written and
\* removed.

\* IgnoreManager.__init__, ignore.py lines 15-27: the global ignore file and
\* the ignore_files are read through _load_ignore_file, ignore_patterns is
\* taken as the configuration has it.
IgnoreManager_init(global_lines, ignore_patterns, additional_lines, rg) ==
    [global_patterns |-> load_ignore_file(global_lines),
     config_patterns |-> ignore_patterns,
     additional_patterns |-> load_ignore_file(additional_lines),
     respect_gitignore |-> rg]

\* The directories that get a .gitignore: the one above the watch root, the
\* root, and src.
DirAbove == << >>
DirSrc == << <<"w">>, <<"s", "r", "c">> >>
GitignoreDirs == {watch_dir, DirSrc}

\* Lines of the .gitignore files: two patterns, two negations, a comment
\* and a blank line.
Line == [g |-> <<"g">>, all |-> <<"*">>, not_g |-> <<"!", "g">>,
         not_a |-> <<"!", "a">>, comment |-> <<"#", "g">>, blank |-> <<" ">>]

\* What an editor writes into a .gitignore.
GitignoreContents ==
    { <<>>, <<Line.g>>, <<PatBuildDir>>, <<Line.g, Line.not_g>>, <<Line.not_a>>,
      <<Line.comment, Line.g>>, <<Line.g, Line.blank>> }

\* The paths should_ignore is asked about.
LookupPaths == {FileG, FileA, << <<"w">>, <<"s", "r", "c">>, <<"g">> >>,
                PathSrcBuildX, PathBuildOutput, PathSibling}

\* The files as the configurations of the managers name them.
LookupManagers ==
    {IgnoreManager_init(<<>>, ignore_patterns, additional_lines,
                        respect_gitignore) :
        ignore_patterns \in {<<>>, <<PatTxt>>},
        additional_lines \in {<<>>, <<Line.comment, PatBuildDir>>},
        respect_gitignore \in BOOLEAN}

\* The caller (core.py line 146) calls should_ignore(file_path).
call_should_ignore(file_path) ==
    /\ probe.pc = "ready"
    /\ probe' = [probe EXCEPT !.pc = "called", !.file_path = file_path]
    /\ UNCHANGED <<gitignore_files, config, submodules, launch,
                   pending_commits, commit_timers, timer_lock,
                   gitignore_patterns, timers, handler, main, fetch_timer,
                   poller, job, since>>

\* should_ignore runs (ignore.py lines 29-60) and returns: it reads the
\* .gitignore files as they are now and leaves its cache.
should_ignore_return ==
    /\ probe.pc = "called"
    /\ LET r == should_ignore(probe.global_patterns \o probe.config_patterns
                                  \o probe.additional_patterns,
                              probe.file_path, probe.respect_gitignore,
                              gitignore_patterns, gitignore_files)
       IN  /\ gitignore_patterns' = r.cache
           /\ probe' = [probe EXCEPT !.pc = "ready",
                                     !.result.ignored = r.ignored]
    /\ UNCHANGED <<gitignore_files, config, submodules, launch,
                   pending_commits, commit_timers, timer_lock, timers, handler,
                   main, fetch_timer, poller, job, since>>

\* Somebody writes the .gitignore of a directory under the watch root (a new
\* file, or new content of the one that is there).
write_gitignore(dir, lines) ==
    /\ probe.pc \in {"ready", "called"}
    /\ gitignore_files' = (dir :> lines) @@ gitignore_files
    /\ UNCHANGED <<config, probe, submodules, launch, pending_commits,
                   commit_timers, timer_lock, gitignore_patterns, timers,
                   handler, main, fetch_timer, poller, job, since>>

\* Somebody removes the .gitignore of a directory.
remove_gitignore(dir) ==
    /\ probe.pc \in {"ready", "called"}
    /\ dir \in DOMAIN gitignore_files
    /\ gitignore_files' =
           [d \in DOMAIN gitignore_files \ {dir} |-> gitignore_files[d]]
    /\ UNCHANGED <<config, probe, submodules, launch, pending_commits,
                   commit_timers, timer_lock, gitignore_patterns, timers,
                   handler, main, fetch_timer, poller, job, since>>

NextLookups ==
    \/ \E file_path \in LookupPaths : call_should_ignore(file_path)
    \/ should_ignore_return
    \/ \E dir \in GitignoreDirs, lines \in GitignoreContents :
           write_gitignore(dir, lines)
    \/ \E dir \in GitignoreDirs : remove_gitignore(dir)

\* A process that has constructed its IgnoreManager; the directory above the
\* watch root has a .gitignore that names everything.
InitLookups ==
    /\ config = default_config
    /\ gitignore_files = (DirAbove :> <<Line.all>>) @@ GitignoreFiles
    /\ launch = NoLaunch
    /\ submodules = <<>>
    /\ pending_commits = EmptyMap
    /\ commit_timers = EmptyMap
    /\ timer_lock = Free
    /\ gitignore_patterns = EmptyMap
    /\ timers = [t \in TimerIds |-> NoTimer]
    /\ handler = IdleHandler
    /\ poller = IdlePoller
    /\ since = [d \in Dirs |-> CommitDelay]
    /\ main = "none"
    /\ fetch_timer = "none"
    /\ job = NoJob
    /\ \E im \in LookupManagers :
           probe = [NoProbe EXCEPT
                        !.pc = "ready",
                        !.global_patterns = im.global_patterns,
                        !.config_patterns = im.config_patterns,
                        !.additional_patterns = im.additional_patterns,
                        !.respect_gitignore = im.respect_gitignore]

SpecLookups == InitLookups /\ [][NextLookups]_vars

\* ------------------------------------------------------------------------
\* Claims about the IgnoreManager of a running process.

\* The manager's all_patterns.
LookupPatterns ==
    probe.global_patterns \o probe.config_patterns \o probe.additional_patterns

\* What should_ignore answers for a path, the cache and the files being as
\* they are.
Ignored(patterns, file_path) ==
    should_ignore(patterns, file_path, probe.respect_gitignore,
                  gitignore_patterns, gitignore_files).ignored

\* Lines that are blank, begin with '#' or begin with '!'.
InertLines == {<<>>, Line.blank, Line.comment, Line.not_g, Line.not_a,
               <<"!", "*">>, <<"#", "*">>}

\* seq with x put in after its i-th element.
Insert(seq, i, x) == SubSeq(seq, 1, i) \o <<x>> \o SubSeq(seq, i + 1, Len(seq))

\* The global ignore file, ignore_patterns or an ignore file with an inert
\* line put in anywhere gives a manager that answers as this one does when
\* it is asked first, whatever the .gitignore files hold by then.
InertInStartupSources ==
    (probe.pc = "ready" /\ probe.file_path = <<>>) =>
        \A line \in InertLines, file_path \in LookupPaths :
            /\ \A i \in 0..Len(probe.global_patterns) :
                   Ignored(IgnoreManager_init(
                               Insert(probe.global_patterns, i, line),
                               <<>>, <<>>, TRUE).global_patterns
                           \o probe.config_patterns
                           \o probe.additional_patterns, file_path)
                       = Ignored(LookupPatterns, file_path)
            /\ \A i \in 0..Len(probe.config_patterns) :
                   Ignored(probe.global_patterns
                           \o Insert(probe.config_patterns, i, line)
                           \o probe.additional_patterns, file_path)
                       = Ignored(LookupPatterns, file_path)
            /\ \A i \in 0..Len(probe.additional_patterns) :
                   Ignored(probe.global_patterns
                           \o probe.config_patterns
                           \o IgnoreManager_init(
                                  <<>>, <<>>,
                                  Insert(probe.additional_patterns, i, line),
                                  TRUE).additional_patterns, file_path)
                       = Ignored(LookupPatterns, file_path)

\* This step puts one inert line into the .gitignore of a directory and
\* leaves the other files as they are.
InertLineAdded ==
    /\ gitignore_files' # gitignore_files
    /\ DOMAIN gitignore_files' = DOMAIN gitignore_files
    /\ \E dir \in GitignoreDirs \cap DOMAIN gitignore_files :
           /\ Len(gitignore_files'[dir]) = Len(gitignore_files[dir]) + 1
           /\ \A other \in DOMAIN gitignore_files \ {dir} :
                  gitignore_files'[other] = gitignore_files[other]
           /\ \E i \in 0..Len(gitignore_files[dir]) :
                  /\ gitignore_files'[dir][i + 1] \in InertLines
                  /\ gitignore_files'[dir]
                         = Insert(gitignore_files[dir], i,
                                  gitignore_files'[dir][i + 1])

\* C32: blank lines, lines that begin with '#' and lines that begin with '!'
\* never cause a path to be ignored: a global ignore file, an ignore_patterns
\* list or an ignore file with such a line added gives the same answer for
\* every path, and a step that adds such a line to a .gitignore leaves the
\* answer of should_ignore for every path as it was (a negation line neither
\* matches nor un-ignores).
C32_InertLines ==
    /\ []InertInStartupSources
    /\ [][InertLineAdded =>
             \A file_path \in LookupPaths :
                 should_ignore(LookupPatterns, file_path,
                               probe.respect_gitignore, gitignore_patterns',
                               gitignore_files').ignored
                     = Ignored(LookupPatterns, file_path)]_vars

\* The root's .gitignore got the line !g after its pattern g, the manager
\* read the file after that, and it answered that g is ignored.
C32_Witness ==
    /\ probe.pc = "ready"
    /\ probe.respect_gitignore
    /\ watch_dir \in DOMAIN gitignore_files
    /\ gitignore_files[watch_dir] = <<Line.g, Line.not_g>>
    /\ watch_dir \in DOMAIN gitignore_patterns
    /\ gitignore_patterns[watch_dir] = <<Line.g, Line.not_g>>
    /\ probe.file_path = FileG
    /\ probe.result.ignored

\* The directories from the file's own up to the watch root.
Chain(file_path) ==
    {SubSeq(file_path, 1, k) : k \in Len(watch_dir)..(Len(file_path) - 1)}

\* The patterns the manager has for the .gitignore of a directory: its cache
\* entry, or what it reads from the file when there is none.
Known(dir) ==
    IF dir \in DOMAIN gitignore_patterns THEN gitignore_patterns[dir]
    ELSE load_ignore_file(gitignore_files[dir])

\* The .gitignore of dir is there and one of its patterns matches the path
\* taken relative to dir.
Hit(file_path, dir) ==
    /\ dir \in DOMAIN gitignore_files
    /\ \E i \in 1..Len(Known(dir)) :
           matches_pattern(Join(relative_to(file_path, dir)), Known(dir)[i])

\* A pattern of the three startup sources matches the path.
StartupMatch(file_path) ==
    \E i \in 1..Len(LookupPatterns) :
        matches_pattern(Join(relative_to(file_path, watch_dir)),
                        LookupPatterns[i])

\* C33: for a path under the watch root that no pattern of the startup
\* sources matches, should_ignore answers "ignored" exactly when
\* respect_gitignore is on and a pattern of the .gitignore of a directory
\* between the file's own directory and the watch root, both included,
\* matches the path taken relative to that directory; no directory above
\* the root counts, and with respect_gitignore off no .gitignore does.
C33_GitignoreChain ==
    [][(/\ probe.pc = "called"
        /\ probe'.pc = "ready"
        /\ is_relative_to(probe.file_path, watch_dir)
        /\ ~StartupMatch(probe.file_path))
       => (probe'.result.ignored <=>
               /\ probe.respect_gitignore
               /\ \E dir \in Chain(probe.file_path) :
                      Hit(probe.file_path, dir))]_vars

\* src/build/x.txt was found ignored through the pattern build/ of
\* src/.gitignore alone: the root's .gitignore does not match it.
C33_Witness ==
    /\ probe.pc = "ready"
    /\ probe.file_path = PathSrcBuildX
    /\ probe.result.ignored
    /\ ~StartupMatch(PathSrcBuildX)
    /\ DirSrc \in DOMAIN gitignore_patterns
    /\ gitignore_patterns[DirSrc] = <<PatBuildDir>>
    /\ Hit(PathSrcBuildX, DirSrc)
    /\ ~Hit(PathSrcBuildX, watch_dir)
    /\ DirAbove \in DOMAIN gitignore_files

\* The call in progress gets as far as the .gitignore of dir: it looks for
\* the .gitignore files from the file's directory upwards and no directory
\* below dir has a match.
Reaches(dir) ==
    /\ is_relative_to(probe.file_path, watch_dir)
    /\ ~StartupMatch(probe.file_path)
    /\ probe.respect_gitignore
    /\ dir \in Chain(probe.file_path)
    /\ \A below \in Chain(probe.file_path) :
           Len(below) > Len(dir) => ~Hit(probe.file_path, below)

\* C34: the patterns of a directory's .gitignore are loaded at most once, by
\* the first call of should_ignore that gets to the directory and finds the
\* file, and stay: a cache entry never changes or goes, whatever is written
\* to the files afterwards, and an entry comes into being only in such a
\* call, as the patterns the file holds at that moment.
C34_LoadedOnce ==
    [][\A dir \in GitignoreDirs \cup {DirAbove} \cup DOMAIN gitignore_patterns' :
           /\ dir \in DOMAIN gitignore_patterns
                  => /\ dir \in DOMAIN gitignore_patterns'
                     /\ gitignore_patterns'[dir] = gitignore_patterns[dir]
           /\ (dir \notin DOMAIN gitignore_patterns
               /\ dir \in DOMAIN gitignore_patterns')
                  => /\ probe.pc = "called"
                     /\ probe'.pc = "ready"
                     /\ Reaches(dir)
                     /\ dir \in DOMAIN gitignore_files
                     /\ gitignore_patterns'[dir]
                            = load_ignore_file(gitignore_files[dir])
           /\ (/\ probe.pc = "called"
               /\ probe'.pc = "ready"
               /\ Reaches(dir)
               /\ dir \in DOMAIN gitignore_files)
                  => dir \in DOMAIN gitignore_patterns']_vars

\* The root's .gitignore was rewritten after the manager had read it: the
\* cache holds the pattern g, the file no longer does, and a later call
\* still answered that g is ignored.
C34_Witness ==
    /\ probe.pc = "ready"
    /\ watch_dir \in DOMAIN gitignore_patterns
    /\ gitignore_patterns[watch_dir] = <<Line.g>>
    /\ watch_dir \in DOMAIN gitignore_files
    /\ gitignore_files[watch_dir] = <<Line.not_a>>
    /\ probe.file_path = FileG
    /\ probe.result.ignored
    /\ probe.respect_gitignore
    /\ ~StartupMatch(FileG)

\* ------------------------------------------------------------------------
\* The engine while nobody stops it: the observer thread and the Timer
\* threads are scheduled again and again, and time passes.

\* The paths of the events: a file of the root and one of a submodule.
LivePaths == {FileA, FileS}

NextLive ==
    \/ \E p \in LivePaths : on_event(p, FALSE)
    \/ handle_file_change
    \/ handle_file_change_lock
    \/ handle_file_change_body
    \/ \E t \in TimerIds : timer_expire(t)
    \/ \E t \in TimerIds : execute_delayed_commit_lock(t)
    \/ \E t \in TimerIds : execute_delayed_commit(t)
    \/ \E t \in TimerIds : timer_commit(t)
    \/ \E t \in TimerIds : timer_submodule_update(t)
    \/ Tick

\* A thread that can take a step takes one: the observer thread inside
\* _handle_file_change, a Timer thread whose interval is over, at the lock
\* and inside it, and the clock.  Nothing is assumed about the events and
\* about the git commands coming to an end.
FairLive ==
    /\ WF_vars(\/ handle_file_change
               \/ handle_file_change_lock
               \/ handle_file_change_body)
    /\ WF_vars(Tick)
    /\ \A t \in TimerIds :
           WF_vars(\/ timer_expire(t)
                   \/ execute_delayed_commit_lock(t)
                   \/ execute_delayed_commit(t))

SpecLive == Init /\ [][NextLive]_vars /\ FairLive

\* ------------------------------------------------------------------------
\* Claims about the progress of the pending paths.

\* From some moment on the observer thread handles no event: finitely many
\* events are accepted.
FinitelyManyEvents == <>[](handler.pc = "idle")

\* The path is in the pending set of the target.
IsPending(d, p) == d \in DOMAIN pending_commits /\ p \in pending_commits[d]

\* A Timer thread has just swapped out the target's pending set with the path
\* in it and is about to run the commit.
HandedOver(d, p) ==
    \E t \in TimerIds :
        /\ timers[t].pc = "stage"
        /\ timers[t].dir = d
        /\ p \in timers[t].changed

\* The target has no pending entry and no timer entry.
IdleTarget(d) == d \notin DOMAIN pending_commits /\ d \notin DOMAIN commit_timers

\* A path is pending under no other target than its own.
PendingUnderItsTarget ==
    \A d \in Dirs : \A p \in LivePaths :
        IsPending(d, p) => d = target_dir_of(p)

\* C35: when finitely many events are accepted (and stop() is not called),
\* every path that is in a target's pending set is later in the set a Timer
\* thread swaps out for that target, and from some moment on every target is
\* idle: no pending entry, no timer entry.
C35_PendingEventuallyCommitted ==
    /\ []PendingUnderItsTarget
    /\ FinitelyManyEvents =>
           /\ \A p \in LivePaths :
                  IsPending(target_dir_of(p), p)
                      ~> HandedOver(target_dir_of(p), p)
           /\ <>[](\A d \in Dirs : IdleTarget(d))

\* Timer threads have swapped out the pending sets of the root and of a
\* submodule, each with its path; every target is idle and no event is being
\* handled.
C35_Witness ==
    /\ HandedOver(repo_dir, FileA)
    /\ HandedOver(target_dir_of(FileS), FileS)
    /\ target_dir_of(FileS) # repo_dir
    /\ \A d \in Dirs : IdleTarget(d)
    /\ handler.pc = "idle"

\* ------------------------------------------------------------------------
\* Claims about the Timers and the maps (implicit in the design).

\* C36: in every reachable state, every Timer of a target that was started,
\* was not cancelled and has not begun its callback is the Timer that
\* commit_timers records for the target.
C36_LiveTimerRecorded ==
    \A t \in TimerIds :
        timers[t].pc = "armed"
            => /\ timers[t].dir \in DOMAIN commit_timers
               /\ commit_timers[timers[t].dir] = t

\* ------------------------------------------------------------------------
\* Two commit attempts side by side, one git command at a time: the Timers of
\* two targets have fired.

\* The Timer thread runs the next git command of its commit sequence
\* (_execute_delayed_commit, lines 189-195, and what it calls).
timer_git_command(t, out) ==
    /\ timers[t].pc \in CommitPcs
    /\ timers' = [timers EXCEPT ![t] = commit_squashed(timers[t], config, out)]
    /\ UNCHANGED <<gitignore_files, config, probe, submodules, launch,
                   pending_commits, commit_timers, timer_lock,
                   gitignore_patterns, handler, main, fetch_timer, poller, job,
                   since>>

NextRoot ==
    \/ \E t \in TimerIds : execute_delayed_commit_lock(t)
    \/ \E t \in TimerIds : execute_delayed_commit(t)
    \/ \E t \in TimerIds, out \in Outcomes : timer_git_command(t, out)
    \/ \E t \in TimerIds : timer_exit(t)

\* The engine at the moment the Timers of two targets have fired: each
\* target has one pending path, its file c, and each Timer is about to enter
\* _execute_delayed_commit.
InitRoot ==
    /\ config \in {c \in Configs : c.notify_on_remote_changes}
    /\ gitignore_files = GitignoreFiles
    /\ launch = Launched
    /\ submodules = Discovered
    /\ \E d1 \in Dirs : \E d2 \in Dirs \ {d1} :
           /\ pending_commits =
                  (d1 :> {d1 \o << <<"c">> >>}) @@ (d2 :> {d2 \o << <<"c">> >>})
           /\ commit_timers = (d1 :> 1) @@ (d2 :> 2)
           /\ timers = [t \in TimerIds |->
                  CASE t = 1 -> [NoTimer EXCEPT !.pc = "fired", !.dir = d1]
                    [] t = 2 -> [NoTimer EXCEPT !.pc = "fired", !.dir = d2]
                    [] OTHER -> NoTimer]
    /\ gitignore_patterns = EmptyMap
    /\ timer_lock = Free
    /\ handler = IdleHandler
    /\ poller = IdlePoller
    /\ probe = NoProbe
    /\ since = [d \in Dirs |-> CommitDelay]
    /\ main = "running"
    /\ fetch_timer = "armed"
    /\ job = NoJob

SpecRoot == InitRoot /\ [][NextRoot]_vars

\* ------------------------------------------------------------------------
\* Claims about commit sequences that run side by side.

\* The Timer thread is inside a stage/commit sequence on the root working
\* directory: it has run the sequence's git add there and has not run its
\* last command.  For the root's own commit the sequence is lines 234-258,
\* for a submodule's follow-up lines 266-291.
InRootSequence(t) ==
    \/ timers[t].dir = repo_dir /\ timers[t].pc \in {"status", "commit", "push"}
    \/ timers[t].pc \in {"upd_diff", "upd_commit", "upd_push"}

\* C37: at most one stage/commit sequence operates on the root working
\* directory at a time: a submodule's follow-up in the root is never under
\* way together with the root's own commit or with another submodule's
\* follow-up.
C37_OneRootSequence ==
    Cardinality({t \in TimerIds : InRootSequence(t)}) <= 1

\* ------------------------------------------------------------------------
\* Claims about the callback's early return and about stop() (implicit in
\* the design).

\* Every commit attempt under way has a non-empty set of changed files.
CommitHasPaths ==
    \A t \in TimerIds : Committing(t) => timers[t].changed # {}

\* C38: a Timer callback that finds no pending entry for its target runs no
\* git command and leaves the pending map and the timer map as they are: the
\* thread ends in the step that releases the lock.  So every commit attempt
\* starts with a non-empty swapped-out set.
C38_NoEntryNoCommit ==
    /\ []CommitHasPaths
    /\ [][\A t \in TimerIds :
              (/\ timers[t].pc = "locked"
               /\ timers[t].dir \notin DOMAIN pending_commits
               /\ timers'[t] # timers[t])
              => /\ timers'[t] = NoTimer
                 /\ UNCHANGED <<pending_commits, commit_timers>>]_vars

\* A Timer that fired late holds the lock and finds no pending entry: another
\* Timer thread took the target's set and is committing it.
C38_Witness ==
    \E t \in TimerIds :
        /\ timers[t].pc = "locked"
        /\ timers[t].dir \notin DOMAIN pending_commits
        /\ \E u \in TimerIds \ {t} :
               /\ Committing(u)
               /\ timers[u].dir = timers[t].dir

\* The main thread takes a step of stop().
StopSteps ==
    /\ main \in {"running", "stop", "stop_locked", "stop_fetch"}
    /\ main' # main

\* C39: stop() cancels the recorded Timers and forgets them, but leaves the
\* pending map as it is: no step of stop() changes pending_commits or starts
\* a commit, and the step that cancels empties commit_timers and ends every
\* recorded Timer that still waits.
C39_StopKeepsPending ==
    [][StopSteps =>
           /\ UNCHANGED pending_commits
           /\ \A t \in TimerIds : ~CommitBegins(t)
           /\ main = "stop_locked" =>
                  /\ commit_timers' = EmptyMap
                  /\ \A d \in DOMAIN commit_timers :
                         timers[commit_timers[d]].pc = "armed"
                             => timers'[commit_timers[d]] = NoTimer]_vars

\* stop() has cancelled the Timers and cleared commit_timers; two paths of the
\* root are still pending.
C39_Witness ==
    /\ main = "stop_fetch"
    /\ commit_timers = EmptyMap
    /\ repo_dir \in DOMAIN pending_commits
    /\ pending_commits[repo_dir] = {FileA, FileB}
    /\ \A t \in TimerIds : timers[t].pc = "none"

====
